---- MODULE Spec2Model ----
(***************************************************************************)
(* Model of pc/gait_data_collector_gui.py: the GaitDataCollector (serial   *)
(* producer, handoff queue, gait and hip consumer threads, channel         *)
(* buffers, peak-based gait-cycle detector) and the GUI handlers that      *)
(* drive it.                                                               *)
(*                                                                         *)
(* Python values that may be None are modelled as sequences of length at   *)
(* most one: <<>> is None and <<v>> is the value v.  A decoded JSON record *)
(* (a dict) is a function from the keys it contains to such values.        *)
(* Times are integer milliseconds, angles are integers.                    *)
(***************************************************************************)
EXTENDS Integers, Sequences, FiniteSets, TLC

VARIABLES
    serial_port,                \* "None" or "open"              (line 51)
    data_queue,                 \* queue.Queue of decoded records (line 52)
    gait_module_enabled,        \* line 59
    hip_module_enabled,         \* line 60
    gait_process_thread,        \* line 63: "None", or the position of the thread
    hip_process_thread,         \* line 64: "None", or the position of the thread
    gait_local,                 \* locals of _gait_process_loop: the record taken
    hip_local,                  \* locals of _hip_process_loop: the record taken
    time_data, hip_data, ankle_data,                     \* lines 67-69
    hip_filtered_data, hip_velocity_filtered_data,       \* lines 72, 74
    phase_data, swing_progress_data,                     \* lines 77-78
    ankle_deg_data, ankle_ref_data, act_data,            \* lines 81-83
    gait_cycle_time, gait_cycle_hip, gait_cycle_ankle,   \* lines 86-88
    last_hip_angle, cycle_start_time, cycle_start_hip, in_cycle,   \* lines 91-94
    hip_angle_history, hip_angle_trend,                  \* lines 97-98
    last_peak_time, last_peak_angle,                     \* lines 99-100
    cycle_file,                 \* content of GAIT_CYCLE_FILE, None if never written
    gui,                        \* the Tk main thread: handler in progress, result
    force_pending,              \* root.after(0, _force_update_plots) scheduled
    produced,                   \* number of records the producer has enqueued
    obs,                        \* lengths seen by the last get_realtime_data call
    ev,                         \* what the last _detect_gait_cycle call did
    gen,                        \* the input signal fed to the detector
    appended,                   \* every value ever appended to time_data, in order
    collect,                    \* _collect_data: the serial input, its locals, the raw queue
    cli,                        \* the collector of gait_data_collector.py
    io                          \* the JSON files written and loaded, and what was loaded

bufs == <<time_data, hip_data, ankle_data, hip_filtered_data,
          hip_velocity_filtered_data, phase_data, swing_progress_data,
          ankle_deg_data, ankle_ref_data, act_data>>

det == <<gait_cycle_time, gait_cycle_hip, gait_cycle_ankle, last_hip_angle,
         cycle_start_time, cycle_start_hip, in_cycle, hip_angle_history,
         hip_angle_trend, last_peak_time, last_peak_angle, cycle_file, ev>>

threads == <<gait_process_thread, hip_process_thread, gait_local, hip_local>>

vars == <<serial_port, data_queue, gait_module_enabled, hip_module_enabled,
          threads, bufs, det, gui, force_pending, produced, obs, gen, appended,
          collect, cli, io>>

----------------------------------------------------------------------------
(* Program constants *)

MAX_DATA_POINTS == 2000
HISTORY_MAXLEN == 20
TREND_MAXLEN == 5
min_cycle_duration == 800
max_cycle_duration == 3000
MIN_CYCLE_POINTS == 20
MIN_SAVE_POINTS == 10
FORCE_MAX_PROCESS == 50

(* Bounds of the model *)

MaxProduced == 1        \* records the producer enqueues in Spec
MaxOverflow == 2        \* appends beyond MAX_DATA_POINTS in SpecBuf
MaxExtrema == 4         \* extrema of a free input signal in SpecDet
MaxLines == 2           \* complete lines of the serial input in SpecCollect

----------------------------------------------------------------------------
(* Python values *)

None == <<>>
Some(v) == <<v>>
IsNone(x) == x = <<>>
Val(x) == x[1]

\* dict.get(key, default)
DictGet(d, key, default) == IF key \in DOMAIN d THEN d[key] ELSE default

\* collections.deque(maxlen=maxlen).append(x): drops the oldest when full
DequeAppendDropNewest(d, x, maxlen) ==
    IF Len(d) >= maxlen THEN d ELSE Append(d, x)

DequeAppend(d, x, maxlen) ==
    IF Len(d) >= maxlen THEN Append(Tail(d), x) ELSE Append(d, x)

\* list[start:] for 0 <= start <= len(list)
SliceFrom(s, start) == SubSeq(s, start + 1, Len(s))

----------------------------------------------------------------------------
(* Decoded records.  Record n carries the value n in every channel it has  *)
(* and the timestamp 10*n, so that a slot of any buffer names the sample   *)
(* it came from.                                                           *)

AllKeys == {"t", "h", "hf", "hvf", "phase", "s", "a", "ar", "act"}
MandatoryKeys == {"t", "h"}

SampleDict(n, keys) == [k \in keys |-> IF k = "t" THEN Some(10 * n) ELSE Some(n)]

KeySets == {AllKeys, MandatoryKeys}

----------------------------------------------------------------------------
(* Threads.  A thread attribute is "None" before the first start, "dead"   *)
(* once its loop has returned, and otherwise the statement the thread     *)
(* executes next.                                                          *)

is_alive(th) == th \notin {"None", "dead"}

AllLens == <<Len(time_data), Len(hip_data), Len(ankle_data), Len(hip_filtered_data),
             Len(hip_velocity_filtered_data), Len(phase_data),
             Len(swing_progress_data), Len(ankle_deg_data), Len(ankle_ref_data),
             Len(act_data)>>

\* the five lengths get_realtime_data takes the minimum of (line 736)
RealtimeLens == <<Len(time_data), Len(hip_data), Len(hip_filtered_data),
                  Len(ankle_deg_data), Len(act_data)>>

is_connected == serial_port = "open"

----------------------------------------------------------------------------
(* The gait-cycle detector, _detect_gait_cycle, as a function of the       *)
(* detector state d (a record of the detector attributes, the cycle file   *)
(* and ev) and of one sample.                                              *)

DetState ==
    [gait_cycle_time |-> gait_cycle_time, gait_cycle_hip |-> gait_cycle_hip,
     gait_cycle_ankle |-> gait_cycle_ankle, last_hip_angle |-> last_hip_angle,
     cycle_start_time |-> cycle_start_time, cycle_start_hip |-> cycle_start_hip,
     in_cycle |-> in_cycle, hip_angle_history |-> hip_angle_history,
     hip_angle_trend |-> hip_angle_trend, last_peak_time |-> last_peak_time,
     last_peak_angle |-> last_peak_angle, cycle_file |-> cycle_file, ev |-> ev]

SetDetState(d) ==
    /\ gait_cycle_time' = d.gait_cycle_time
    /\ gait_cycle_hip' = d.gait_cycle_hip
    /\ gait_cycle_ankle' = d.gait_cycle_ankle
    /\ last_hip_angle' = d.last_hip_angle
    /\ cycle_start_time' = d.cycle_start_time
    /\ cycle_start_hip' = d.cycle_start_hip
    /\ in_cycle' = d.in_cycle
    /\ hip_angle_history' = d.hip_angle_history
    /\ hip_angle_trend' = d.hip_angle_trend
    /\ last_peak_time' = d.last_peak_time
    /\ last_peak_angle' = d.last_peak_angle
    /\ cycle_file' = d.cycle_file
    /\ ev' = d.ev

\* ev: the outcome of one _detect_gait_cycle call.  saves counts the cycle
\* files written so far; the other fields describe the last call only.
NoEvent(saves) ==
    [init |-> FALSE, peak |-> FALSE, peak_time |-> None, prior |-> None,
     in_range |-> FALSE, points |-> 0, emitted |-> FALSE, saved_time |-> <<>>,
     timeout |-> FALSE, saves |-> saves]

\* 0-based index of the first element >= x, 0 when there is none
\* (the for/break loops of lines 495-499 and 517-521)
FirstIndexGE(s, x) ==
    LET hits == {i \in 1..Len(s) : s[i] >= x}
    IN  IF hits = {} THEN 0
        ELSE (CHOOSE i \in hits : \A j \in hits : i <= j) - 1

\* line 458: the trend reverses
TrendFlipsLoose(last_trend, angle_diff) ==
    (last_trend >= 0 /\ angle_diff < 0) \/ (last_trend <= 0 /\ angle_diff > 0)

TrendFlips(last_trend, angle_diff) ==
    (last_trend > 0 /\ angle_diff < 0) \/ (last_trend < 0 /\ angle_diff > 0)

\* lines 470-477: local maximum or local minimum
IsPeak(prev_angle, mid_angle, next_angle) ==
    \/ (mid_angle >= prev_angle /\ mid_angle >= next_angle)
    \/ (mid_angle <= prev_angle /\ mid_angle <= next_angle)

\* line 488
InDurationRangeNoMin(cycle_duration) ==
    cycle_duration <= max_cycle_duration

InDurationRange(cycle_duration) ==
    min_cycle_duration <= cycle_duration /\ cycle_duration <= max_cycle_duration

\* line 490
EnoughPointsToSaveLow(n) == n >= MIN_SAVE_POINTS

EnoughPointsToSave(n) == n >= MIN_CYCLE_POINTS

\* _save_gait_cycle: relative times are kept in milliseconds
\* (the file stores them divided by 1000.0)
save_gait_cycle(d) ==
    IF Len(d.gait_cycle_time) < MIN_SAVE_POINTS THEN d
    ELSE LET start_time == d.gait_cycle_time[1]
             gait_data ==
                 [cycle_duration |->
                      d.gait_cycle_time[Len(d.gait_cycle_time)] - d.gait_cycle_time[1],
                  data_points |-> Len(d.gait_cycle_time),
                  time |-> [i \in 1..Len(d.gait_cycle_time) |->
                               d.gait_cycle_time[i] - start_time],
                  hip_angle |-> d.gait_cycle_hip,
                  ankle_angle |-> d.gait_cycle_ankle]
         IN  [d EXCEPT !.cycle_file = Some(gait_data),
                       !.ev = [@ EXCEPT !.emitted = TRUE,
                                        !.saved_time = d.gait_cycle_time,
                                        !.saves = @ + 1]]

\* lines 483-510: a peak is confirmed while a prior peak is recorded
PeakWithPrior(d, peak_time, peak_angle) ==
    LET cycle_duration == peak_time - Val(d.last_peak_time)
        d0 == [d EXCEPT !.ev = [@ EXCEPT !.in_range = InDurationRange(cycle_duration)]]
        d1 == IF EnoughPointsToSave(Len(d0.gait_cycle_time))
              THEN save_gait_cycle(d0) ELSE d0
        start_idx == FirstIndexGE(d1.gait_cycle_time, Val(d1.last_peak_time))
        d2 == IF start_idx < Len(d1.gait_cycle_time)
              THEN [d1 EXCEPT
                      !.gait_cycle_time = SliceFrom(@, start_idx),
                      !.gait_cycle_hip = SliceFrom(@, start_idx),
                      !.gait_cycle_ankle = SliceFrom(@, start_idx),
                      !.cycle_start_time = d1.last_peak_time]
              ELSE d1
        d3 == IF InDurationRange(cycle_duration) THEN d2 ELSE d0
    IN  [d3 EXCEPT !.last_peak_time = Some(peak_time),
                   !.last_peak_angle = Some(peak_angle)]

\* lines 511-525: the first peak
FirstPeak(d, peak_time, peak_angle) ==
    LET peak_idx == FirstIndexGE(d.gait_cycle_time, peak_time)
        d1 == [d EXCEPT !.last_peak_time = Some(peak_time),
                        !.last_peak_angle = Some(peak_angle),
                        !.cycle_start_time = Some(peak_time)]
    IN  IF peak_idx > 0
        THEN [d1 EXCEPT !.gait_cycle_time = SliceFrom(@, peak_idx),
                        !.gait_cycle_hip = SliceFrom(@, peak_idx),
                        !.gait_cycle_ankle = SliceFrom(@, peak_idx)]
        ELSE d1

\* lines 453-525: peak detection on the history window
DetectPeak(d, hip_angle, angle_diff) ==
    LET n == Len(d.hip_angle_history)
    IN  IF /\ Len(d.hip_angle_trend) > 0
           /\ TrendFlips(d.hip_angle_trend[Len(d.hip_angle_trend)], angle_diff)
           /\ n >= 3
           /\ IsPeak(d.hip_angle_history[n - 2].angle,
                     d.hip_angle_history[n - 1].angle, hip_angle)
        THEN LET peak_time == d.hip_angle_history[n - 1].time
                 peak_angle == d.hip_angle_history[n - 1].angle
                 d1 == [d EXCEPT !.ev = [@ EXCEPT !.peak = TRUE,
                                                  !.peak_time = Some(peak_time),
                                                  !.prior = d.last_peak_time,
                                                  !.points = Len(d.gait_cycle_time)]]
             IN  IF ~IsNone(d.last_peak_time)
                 THEN PeakWithPrior(d1, peak_time, peak_angle)
                 ELSE FirstPeak(d1, peak_time, peak_angle)
        ELSE d

\* lines 527-530
UpdateTrend(d, angle_diff) ==
    [d EXCEPT !.hip_angle_trend =
        IF Len(@) + 1 > TREND_MAXLEN THEN Tail(Append(@, angle_diff))
        ELSE Append(@, angle_diff)]

\* lines 540-548: the cycle has lasted too long and is abandoned
AbandonCycleResetsAll(d) ==
    [d EXCEPT !.in_cycle = FALSE,
              !.gait_cycle_time = <<>>,
              !.gait_cycle_hip = <<>>,
              !.gait_cycle_ankle = <<>>,
              !.last_peak_time = None,
              !.last_peak_angle = None,
              !.hip_angle_trend = <<>>,
              !.hip_angle_history = <<>>,
              !.ev = [@ EXCEPT !.timeout = TRUE]]

AbandonCycle(d) ==
    [d EXCEPT !.in_cycle = FALSE,
              !.gait_cycle_time = <<>>,
              !.gait_cycle_hip = <<>>,
              !.gait_cycle_ankle = <<>>,
              !.last_peak_time = None,
              !.last_peak_angle = None,
              !.ev = [@ EXCEPT !.timeout = TRUE]]

\* lines 549-558: no cycle is accumulating, a new one starts at the sample
StartCycleKeepsStart(d, timestamp, hip_angle, ankle_angle) ==
    [d EXCEPT !.in_cycle = TRUE,
              !.cycle_start_hip = Some(hip_angle),
              !.gait_cycle_time = <<timestamp>>,
              !.gait_cycle_hip = <<hip_angle>>,
              !.gait_cycle_ankle = <<ankle_angle>>,
              !.last_peak_time = None,
              !.last_peak_angle = None]

StartCycle(d, timestamp, hip_angle, ankle_angle) ==
    [d EXCEPT !.in_cycle = TRUE,
              !.cycle_start_time = Some(timestamp),
              !.cycle_start_hip = Some(hip_angle),
              !.gait_cycle_time = <<timestamp>>,
              !.gait_cycle_hip = <<hip_angle>>,
              !.gait_cycle_ankle = <<ankle_angle>>,
              !.last_peak_time = None,
              !.last_peak_angle = None]

\* lines 532-558: accumulate the sample, abandon a cycle that lasts too long
Accumulate(d, timestamp, hip_angle, ankle_angle) ==
    IF d.in_cycle
    THEN LET d1 == [d EXCEPT !.gait_cycle_time = Append(@, timestamp),
                             !.gait_cycle_hip = Append(@, hip_angle),
                             !.gait_cycle_ankle = Append(@, ankle_angle)]
             time_diff == timestamp - Val(d.cycle_start_time)
         IN  IF time_diff > max_cycle_duration THEN AbandonCycle(d1) ELSE d1
    ELSE StartCycle(d, timestamp, hip_angle, ankle_angle)

\* _detect_gait_cycle(timestamp, hip_angle, ankle_angle); timestamp and
\* hip_angle are numbers (the callers skip None), ankle_angle may be None
detect_gait_cycle(d, timestamp, hip_angle, ankle_angle) ==
    LET d0 == [d EXCEPT !.ev = NoEvent(d.ev.saves)]
    IN  IF IsNone(d.last_hip_angle)
        THEN [d0 EXCEPT !.last_hip_angle = Some(hip_angle),
                        !.cycle_start_time = Some(timestamp),
                        !.cycle_start_hip = Some(hip_angle),
                        !.in_cycle = TRUE,
                        !.gait_cycle_time = <<>>,
                        !.gait_cycle_hip = <<>>,
                        !.gait_cycle_ankle = <<>>,
                        !.hip_angle_history = <<>>,
                        !.hip_angle_trend = <<>>,
                        !.ev = [@ EXCEPT !.init = TRUE]]
        ELSE LET d1 == [d0 EXCEPT !.hip_angle_history =
                           DequeAppend(@, [time |-> timestamp, angle |-> hip_angle,
                                           ankle |-> ankle_angle], HISTORY_MAXLEN)]
                 angle_diff == hip_angle - Val(d.last_hip_angle)
                 d2 == DetectPeak(d1, hip_angle, angle_diff)
                 d3 == UpdateTrend(d2, angle_diff)
                 d4 == Accumulate(d3, timestamp, hip_angle, ankle_angle)
             IN  [d4 EXCEPT !.last_hip_angle = Some(hip_angle)]

----------------------------------------------------------------------------
(* State after GaitDataCollector.__init__ and GaitDataCollectorGUI.__init__ *)

NoSignal ==
    [mode |-> "none", dt |-> 0, t |-> 0, h |-> 0, dir |-> 0, left |-> 0,
     extrema |-> 0, ext1 |-> None, ext2 |-> None, done |-> TRUE]

\* the producer before any serial input: empty local buffer and raw queue
NoLink ==
    [thread |-> "None", wire |-> <<>>, buffer |-> <<>>, raw_data_queue |-> <<>>,
     stream |-> <<>>, fed |-> <<>>, framed |-> <<>>, history |-> <<>>,
     commands |-> 0]

\* gait_data_collector.py, GaitDataCollector.__init__ (lines 38-42)
NoCli ==
    [serial_port |-> "None", is_collecting |-> FALSE, collect_thread |-> "None",
     data_queue |-> <<>>, failures |-> 0]

\* no file has been written by save_gait_cycle_as, nothing has been loaded.
\* cycle_scale is the scale of the integers in gait_cycle_time (see SpecFile);
\* record, saved_bufs, resaved and loaded remember what was emitted, saved
\* and loaded
NoFiles ==
    [cycle_scale |-> 0, cycle_json |-> None, cycle_json_scale |-> 0,
     realtime_json |-> None, record |-> None, saved_bufs |-> None,
     resaved |-> None, loaded |-> {}, saves |-> 0, loads |-> 0]

\* start_data_reception (lines 184-197): the producer thread is started
\* unless one is alive
start_data_reception(c) ==
    [c EXCEPT !.thread = IF is_alive(@) THEN @ ELSE "while"]

\* the producer once the link is connected
Linked == start_data_reception(NoLink)

InitCollector ==
    /\ serial_port = "None"
    /\ data_queue = <<>>
    /\ gait_module_enabled = FALSE
    /\ hip_module_enabled = FALSE
    /\ gait_process_thread = "None"
    /\ hip_process_thread = "None"
    /\ gait_local = None
    /\ hip_local = None
    /\ time_data = <<>> /\ hip_data = <<>> /\ ankle_data = <<>>
    /\ hip_filtered_data = <<>> /\ hip_velocity_filtered_data = <<>>
    /\ phase_data = <<>> /\ swing_progress_data = <<>>
    /\ ankle_deg_data = <<>> /\ ankle_ref_data = <<>> /\ act_data = <<>>
    /\ gait_cycle_time = <<>> /\ gait_cycle_hip = <<>> /\ gait_cycle_ankle = <<>>
    /\ last_hip_angle = None
    /\ cycle_start_time = None
    /\ cycle_start_hip = None
    /\ in_cycle = FALSE
    /\ hip_angle_history = <<>>
    /\ hip_angle_trend = <<>>
    /\ last_peak_time = None
    /\ last_peak_angle = None
    /\ cycle_file = None
    /\ gui = [pc |-> "idle", op |-> "none", result |-> "none"]
    /\ force_pending = FALSE
    /\ produced = 0
    /\ obs = None
    /\ ev = NoEvent(0)
    /\ appended = <<>>

----------------------------------------------------------------------------
(* SpecDet: the detector fed with a hip-angle signal.  The signal is a     *)
(* triangle wave sampled every dt ms that rises or falls by one degree per *)
(* sample and turns at its extrema.  A free signal chooses the distance to *)
(* each next extremum from Gaps; the periodic signal has one maximum and   *)
(* one minimum per period.  gen.t, gen.h is the next sample, gen.left the  *)
(* number of samples before the next extremum sample, ext2 and ext1 the    *)
(* times of the last two extremum samples fed.                             *)

SampleIntervals == {50, 100}
Gaps == {400, 1500, 2000, 3100, 3500}
Periodic == [dt |-> 10, half |-> 600, periods |-> 10]

InitDet ==
    /\ InitCollector
    /\ collect = NoLink
    /\ cli = NoCli
    /\ io = NoFiles
    /\ \/ \E dt \in SampleIntervals, g \in Gaps :
              gen = [mode |-> "free", dt |-> dt, t |-> 0, h |-> 0, dir |-> 1,
                     left |-> g \div dt, extrema |-> 0, ext1 |-> None,
                     ext2 |-> None, done |-> FALSE]
       \/ gen = [mode |-> "periodic", dt |-> Periodic.dt, t |-> 0, h |-> 0,
                 dir |-> 1, left |-> (Periodic.half \div 2) \div Periodic.dt,
                 extrema |-> 0, ext1 |-> None, ext2 |-> None, done |-> FALSE]

\* the number of extrema after which the signal ends (one more sample
\* follows the last extremum, so that the detector can confirm it)
LastExtremum(g) ==
    IF g.mode = "periodic" THEN 2 * Periodic.periods ELSE MaxExtrema

NextGaps(g) == IF g.mode = "periodic" THEN {Periodic.half} ELSE Gaps

\* the signal after its sample (gen.t, gen.h) has been fed
Advance(g, gap) ==
    IF g.left = 0
    THEN [g EXCEPT !.t = @ + g.dt, !.h = @ - g.dir, !.dir = -g.dir,
                   !.left = (gap \div g.dt) - 1,
                   !.extrema = @ + 1, !.ext1 = g.ext2, !.ext2 = Some(g.t)]
    ELSE [g EXCEPT !.t = @ + g.dt, !.h = @ + g.dir, !.left = @ - 1,
                   !.done = (g.extrema = LastExtremum(g))]

\* one call _detect_gait_cycle(t, h, None) on the next sample of the signal
Feed ==
    /\ ~gen.done
    /\ \E gap \in (IF gen.left = 0 THEN NextGaps(gen) ELSE {0}) :
           gen' = Advance(gen, gap)
    /\ SetDetState(detect_gait_cycle(DetState, gen.t, gen.h, None))
    /\ UNCHANGED <<cli, io, collect, serial_port, data_queue, gait_module_enabled, hip_module_enabled,
                   threads, bufs, gui, force_pending, produced, obs, appended>>

NextDet == Feed

SpecDet == InitDet /\ [][NextDet]_vars

(* SpecPeak: the detector fed with MaxSamples samples, one every 100 ms,   *)
(* of a signal that starts at 0 and from one sample to the next rises by   *)
(* one degree, falls by one degree or repeats its value.  gen.t, gen.h is  *)
(* the next sample and gen.left the number of samples still to feed.       *)

MaxSamples == 7
Steps == {-1, 0, 1}

InitPeak ==
    /\ InitCollector
    /\ collect = NoLink
    /\ cli = NoCli
    /\ io = NoFiles
    /\ gen = [NoSignal EXCEPT !.mode = "walk", !.dt = 100, !.left = MaxSamples,
                              !.done = FALSE]

\* one call _detect_gait_cycle(t, h, None) on the next sample of the walk
FeedWalk ==
    /\ gen.mode = "walk"
    /\ gen.left > 0
    /\ \E step \in Steps :
           gen' = [gen EXCEPT !.t = @ + gen.dt, !.h = @ + step, !.dir = step,
                              !.left = @ - 1, !.done = (gen.left = 1)]
    /\ SetDetState(detect_gait_cycle(DetState, gen.t, gen.h, None))
    /\ UNCHANGED <<cli, io, collect, serial_port, data_queue, gait_module_enabled, hip_module_enabled,
                   threads, bufs, gui, force_pending, produced, obs, appended>>

NextPeak == FeedWalk

SpecPeak == InitPeak /\ [][NextPeak]_vars

----------------------------------------------------------------------------
(* The consumer threads.  Each assignment of the loop bodies is one step,  *)
(* so that the steps of the two threads, of the producer and of the GUI    *)
(* thread interleave as the interpreter may switch between them.           *)

GaitPcs == {"while", "empty", "get", "app_time", "app_hip", "app_ankle", "detect"}
HipPcs == {"while", "empty", "get", "app_time", "app_hip", "app_hf", "app_hvf",
           "app_phase", "app_s", "app_adeg", "app_aref", "app_act", "app_ankle"}

\* the statement after each buffer append of _hip_process_loop (lines 396-415)
HipNextPc(pc) ==
    CASE pc = "app_time" -> "app_hip"
      [] pc = "app_hip" -> "app_hf"
      [] pc = "app_hf" -> "app_hvf"
      [] pc = "app_hvf" -> "app_phase"
      [] pc = "app_phase" -> "app_s"
      [] pc = "app_s" -> "app_adeg"
      [] pc = "app_adeg" -> "app_aref"
      [] pc = "app_aref" -> "app_act"
      [] pc = "app_act" -> "app_ankle"
      [] pc = "app_ankle" -> "while"

\* the buffers after the appends named in pcs of one _hip_process_loop
\* iteration on the record data (lines 387-404 and 413-415)
HipAppendsZeroForMissing(pcs, data) ==
    LET ankle_deg == DictGet(data, "a", None)
        app(buf, pc, v) == IF pc \in pcs THEN DequeAppend(buf, v, MAX_DATA_POINTS)
                           ELSE buf
    IN  /\ time_data' = app(time_data, "app_time", DictGet(data, "t", None))
        /\ hip_data' = app(hip_data, "app_hip", DictGet(data, "h", None))
        /\ hip_filtered_data' =
               app(hip_filtered_data, "app_hf", DictGet(data, "hf", Some(0)))
        /\ hip_velocity_filtered_data' =
               app(hip_velocity_filtered_data, "app_hvf", DictGet(data, "hvf", None))
        /\ phase_data' = app(phase_data, "app_phase", DictGet(data, "phase", Some(0)))
        /\ swing_progress_data' =
               app(swing_progress_data, "app_s", DictGet(data, "s", Some(0)))
        /\ ankle_deg_data' = app(ankle_deg_data, "app_adeg", ankle_deg)
        /\ ankle_ref_data' = app(ankle_ref_data, "app_aref", DictGet(data, "ar", None))
        /\ act_data' = app(act_data, "app_act", DictGet(data, "act", Some(0)))
        /\ ankle_data' =
               IF "app_ankle" \in pcs /\ ~gait_module_enabled
               THEN DequeAppend(ankle_data,
                                IF IsNone(ankle_deg) THEN Some(0) ELSE ankle_deg,
                                MAX_DATA_POINTS)
               ELSE ankle_data

HipAppends(pcs, data) ==
    LET ankle_deg == DictGet(data, "a", None)
        app(buf, pc, v) == IF pc \in pcs THEN DequeAppend(buf, v, MAX_DATA_POINTS)
                           ELSE buf
    IN  /\ time_data' = app(time_data, "app_time", DictGet(data, "t", None))
        /\ hip_data' = app(hip_data, "app_hip", DictGet(data, "h", None))
        /\ hip_filtered_data' = app(hip_filtered_data, "app_hf", DictGet(data, "hf", None))
        /\ hip_velocity_filtered_data' =
               app(hip_velocity_filtered_data, "app_hvf", DictGet(data, "hvf", None))
        /\ phase_data' = app(phase_data, "app_phase", DictGet(data, "phase", Some(0)))
        /\ swing_progress_data' =
               app(swing_progress_data, "app_s", DictGet(data, "s", Some(0)))
        /\ ankle_deg_data' = app(ankle_deg_data, "app_adeg", ankle_deg)
        /\ ankle_ref_data' = app(ankle_ref_data, "app_aref", DictGet(data, "ar", None))
        /\ act_data' = app(act_data, "app_act", DictGet(data, "act", Some(0)))
        /\ ankle_data' =
               IF "app_ankle" \in pcs /\ ~gait_module_enabled
               THEN DequeAppend(ankle_data,
                                IF IsNone(ankle_deg) THEN Some(0) ELSE ankle_deg,
                                MAX_DATA_POINTS)
               ELSE ankle_data

\* while self.hip_module_enabled (line 373)
HipWhile ==
    /\ hip_process_thread = "while"
    /\ hip_process_thread' = IF hip_module_enabled THEN "empty" ELSE "return"
    /\ UNCHANGED <<cli, io, collect, serial_port, data_queue, gait_module_enabled, hip_module_enabled,
                   gait_process_thread, gait_local, hip_local, bufs, det, gui,
                   force_pending, produced, obs, gen, appended>>

\* the loop has ended: _hip_process_loop returns and the thread ends; until
\* then is_alive() is true
HipReturn ==
    /\ hip_process_thread = "return"
    /\ hip_process_thread' = "dead"
    /\ UNCHANGED <<cli, io, collect, serial_port, data_queue, gait_module_enabled, hip_module_enabled,
                   gait_process_thread, gait_local, hip_local, bufs, det, gui,
                   force_pending, produced, obs, gen, appended>>

\* if not self.data_queue.empty() ... else time.sleep(0.01) (lines 375, 416-417)
HipEmpty ==
    /\ hip_process_thread = "empty"
    /\ hip_process_thread' = IF data_queue # <<>> THEN "get" ELSE "while"
    /\ UNCHANGED <<cli, io, collect, serial_port, data_queue, gait_module_enabled, hip_module_enabled,
                   gait_process_thread, gait_local, hip_local, bufs, det, gui,
                   force_pending, produced, obs, gen, appended>>

\* data = self.data_queue.get(timeout=0.1) and the None test (lines 376-385);
\* on an empty queue get raises queue.Empty after the timeout (line 418)
HipGet ==
    /\ hip_process_thread = "get"
    /\ IF data_queue = <<>>
       THEN /\ hip_process_thread' = "while"
            /\ UNCHANGED <<data_queue, hip_local>>
       ELSE LET data == Head(data_queue)
            IN  /\ data_queue' = Tail(data_queue)
                /\ IF IsNone(DictGet(data, "h", None)) \/ IsNone(DictGet(data, "t", None))
                   THEN hip_process_thread' = "while" /\ hip_local' = None
                   ELSE hip_process_thread' = "app_time" /\ hip_local' = Some(data)
    /\ UNCHANGED <<cli, io, collect, serial_port, gait_module_enabled, hip_module_enabled,
                   gait_process_thread, gait_local, bufs, det, gui,
                   force_pending, produced, obs, gen, appended>>

\* one of the appends of lines 396-404 and 413-415
HipAppend ==
    /\ hip_process_thread \in HipPcs \ {"while", "empty", "get"}
    /\ HipAppends({hip_process_thread}, Val(hip_local))
    /\ hip_process_thread' = HipNextPc(hip_process_thread)
    /\ hip_local' = IF hip_process_thread = "app_ankle" THEN None ELSE hip_local
    /\ UNCHANGED <<cli, io, collect, serial_port, data_queue, gait_module_enabled, hip_module_enabled,
                   gait_process_thread, gait_local, det, gui,
                   force_pending, produced, obs, gen, appended>>

\* while self.gait_module_enabled (line 338)
GaitWhileNeverExits ==
    /\ gait_process_thread = "while"
    /\ gait_process_thread' = "empty"
    /\ UNCHANGED <<cli, io, collect, serial_port, data_queue, gait_module_enabled, hip_module_enabled,
                   hip_process_thread, gait_local, hip_local, bufs, det, gui,
                   force_pending, produced, obs, gen, appended>>

GaitWhile ==
    /\ gait_process_thread = "while"
    /\ gait_process_thread' = IF gait_module_enabled THEN "empty" ELSE "return"
    /\ UNCHANGED <<cli, io, collect, serial_port, data_queue, gait_module_enabled, hip_module_enabled,
                   hip_process_thread, gait_local, hip_local, bufs, det, gui,
                   force_pending, produced, obs, gen, appended>>

\* the loop has ended: _gait_process_loop returns and the thread ends; until
\* then is_alive() is true
GaitReturn ==
    /\ gait_process_thread = "return"
    /\ gait_process_thread' = "dead"
    /\ UNCHANGED <<cli, io, collect, serial_port, data_queue, gait_module_enabled, hip_module_enabled,
                   hip_process_thread, gait_local, hip_local, bufs, det, gui,
                   force_pending, produced, obs, gen, appended>>

\* lines 340, 359-360
GaitEmpty ==
    /\ gait_process_thread = "empty"
    /\ gait_process_thread' = IF data_queue # <<>> THEN "get" ELSE "while"
    /\ UNCHANGED <<cli, io, collect, serial_port, data_queue, gait_module_enabled, hip_module_enabled,
                   hip_process_thread, gait_local, hip_local, bufs, det, gui,
                   force_pending, produced, obs, gen, appended>>

\* lines 341-350, 361-362
GaitGet ==
    /\ gait_process_thread = "get"
    /\ IF data_queue = <<>>
       THEN /\ gait_process_thread' = "while"
            /\ UNCHANGED <<data_queue, gait_local>>
       ELSE LET data == Head(data_queue)
            IN  /\ data_queue' = Tail(data_queue)
                /\ IF IsNone(DictGet(data, "t", None)) \/ IsNone(DictGet(data, "h", None))
                   THEN gait_process_thread' = "while" /\ gait_local' = None
                   ELSE gait_process_thread' = "app_time" /\ gait_local' = Some(data)
    /\ UNCHANGED <<cli, io, collect, serial_port, gait_module_enabled, hip_module_enabled,
                   hip_process_thread, hip_local, bufs, det, gui,
                   force_pending, produced, obs, gen, appended>>

\* lines 353-355: one of the three appends
GaitAppend ==
    /\ gait_process_thread \in {"app_time", "app_hip", "app_ankle"}
    /\ LET data == Val(gait_local)
           pc == gait_process_thread
       IN  /\ time_data' = IF pc = "app_time"
                           THEN DequeAppend(time_data, DictGet(data, "t", None),
                                            MAX_DATA_POINTS)
                           ELSE time_data
           /\ hip_data' = IF pc = "app_hip"
                          THEN DequeAppend(hip_data, DictGet(data, "h", None),
                                           MAX_DATA_POINTS)
                          ELSE hip_data
           /\ ankle_data' = IF pc = "app_ankle"
                            THEN DequeAppend(ankle_data, DictGet(data, "a", None),
                                             MAX_DATA_POINTS)
                            ELSE ankle_data
    /\ gait_process_thread' = CASE gait_process_thread = "app_time" -> "app_hip"
                                [] gait_process_thread = "app_hip" -> "app_ankle"
                                [] gait_process_thread = "app_ankle" -> "detect"
    /\ UNCHANGED <<cli, io, collect, serial_port, data_queue, gait_module_enabled, hip_module_enabled,
                   hip_process_thread, gait_local, hip_local, hip_filtered_data,
                   hip_velocity_filtered_data, phase_data, swing_progress_data,
                   ankle_deg_data, ankle_ref_data, act_data, det, gui,
                   force_pending, produced, obs, gen, appended>>

\* line 358: self._detect_gait_cycle(timestamp, hip_angle, ankle_angle)
GaitDetect ==
    /\ gait_process_thread = "detect"
    /\ LET data == Val(gait_local)
       IN  SetDetState(detect_gait_cycle(DetState, Val(data["t"]), Val(data["h"]),
                                         DictGet(data, "a", None)))
    /\ gait_process_thread' = "while"
    /\ gait_local' = None
    /\ UNCHANGED <<cli, io, collect, serial_port, data_queue, gait_module_enabled, hip_module_enabled,
                   hip_process_thread, hip_local, bufs, gui,
                   force_pending, produced, obs, gen, appended>>

----------------------------------------------------------------------------
(* The producer.  _collect_data puts every decoded record that has the     *)
(* keys 't' and 'h' on data_queue (lines 293-296).                         *)

Produce ==
    /\ is_alive(collect.thread)
    /\ is_connected
    /\ produced < MaxProduced
    /\ \E keys \in KeySets :
           data_queue' = Append(data_queue, SampleDict(produced + 1, keys))
    /\ produced' = produced + 1
    /\ UNCHANGED <<cli, io, collect, serial_port, gait_module_enabled, hip_module_enabled, threads,
                   bufs, det, gui, force_pending, obs, gen, appended>>

----------------------------------------------------------------------------
(* The GUI thread.  Tk runs one handler at a time; a handler runs to its   *)
(* end without another handler in between, but the other threads run       *)
(* while it does.  A handler is one step, except that it is split where it *)
(* blocks in Thread.join(timeout=2): gui.pc = "join_gait" or "join_hip",   *)
(* and gui.op is the handler that continues after the join.  gui.result is *)
(* what the last handler that has ended reported.                          *)

GuiIdle(op, result) == [pc |-> "idle", op |-> "none", result |-> result]

\* start_gait_module (lines 199-211)
start_gait_module ==
    IF gait_module_enabled
    THEN UNCHANGED <<gait_module_enabled, gait_process_thread>>
    ELSE /\ gait_module_enabled' = TRUE
         /\ gait_process_thread' = IF is_alive(gait_process_thread)
                                   THEN gait_process_thread ELSE "while"

\* start_hip_module (lines 219-243)
start_hip_module_keeps_time ==
    IF hip_module_enabled
    THEN UNCHANGED <<hip_module_enabled, hip_process_thread, bufs>>
    ELSE /\ hip_data' = <<>>
         /\ hip_filtered_data' = <<>>
         /\ ankle_deg_data' = <<>>
         /\ phase_data' = <<>>
         /\ swing_progress_data' = <<>>
         /\ ankle_ref_data' = <<>>
         /\ act_data' = <<>>
         /\ UNCHANGED <<time_data, ankle_data, hip_velocity_filtered_data>>
         /\ hip_module_enabled' = TRUE
         /\ hip_process_thread' = IF is_alive(hip_process_thread)
                                  THEN hip_process_thread ELSE "while"

start_hip_module ==
    IF hip_module_enabled
    THEN UNCHANGED <<hip_module_enabled, hip_process_thread, bufs>>
    ELSE /\ time_data' = <<>>
         /\ hip_data' = <<>>
         /\ hip_filtered_data' = <<>>
         /\ ankle_deg_data' = <<>>
         /\ phase_data' = <<>>
         /\ swing_progress_data' = <<>>
         /\ ankle_ref_data' = <<>>
         /\ act_data' = <<>>
         /\ UNCHANGED <<ankle_data, hip_velocity_filtered_data>>
         /\ hip_module_enabled' = TRUE
         /\ hip_process_thread' = IF is_alive(hip_process_thread)
                                  THEN hip_process_thread ELSE "while"

\* stop_gait_module up to its join (lines 213-217)
BeginStopGait(op) ==
    /\ gait_module_enabled' = FALSE
    /\ gui' = [pc |-> IF gait_process_thread # "None" THEN "join_gait" ELSE "after_gait",
               op |-> op, result |-> gui.result]

\* stop_hip_module up to its join (lines 245-249)
BeginStopHip(op) ==
    /\ hip_module_enabled' = FALSE
    /\ gui' = [pc |-> IF hip_process_thread # "None" THEN "join_hip" ELSE "after_hip",
               op |-> op, result |-> gui.result]

\* toggle_gait_module (lines 2087-2112)
toggle_gait_module_unchecked ==
    /\ gui.pc = "idle"
    /\ IF gait_module_enabled
       THEN /\ BeginStopGait("toggle_gait_module")
            /\ UNCHANGED gait_process_thread
       ELSE IF ~is_connected
       THEN /\ gui' = GuiIdle("toggle_gait_module", "error_not_connected")
            /\ UNCHANGED <<gait_module_enabled, gait_process_thread>>
       ELSE /\ start_gait_module
            /\ gui' = GuiIdle("toggle_gait_module", "gait_started")
    /\ UNCHANGED <<cli, io, collect, serial_port, data_queue, hip_module_enabled, hip_process_thread,
                   gait_local, hip_local, bufs, det, force_pending, produced, obs,
                   gen, appended>>

toggle_gait_module ==
    /\ gui.pc = "idle"
    /\ IF gait_module_enabled
       THEN /\ BeginStopGait("toggle_gait_module")
            /\ UNCHANGED gait_process_thread
       ELSE IF hip_module_enabled
       THEN /\ gui' = GuiIdle("toggle_gait_module", "error_hip_enabled")
            /\ UNCHANGED <<gait_module_enabled, gait_process_thread>>
       ELSE IF ~is_connected
       THEN /\ gui' = GuiIdle("toggle_gait_module", "error_not_connected")
            /\ UNCHANGED <<gait_module_enabled, gait_process_thread>>
       ELSE /\ start_gait_module
            /\ gui' = GuiIdle("toggle_gait_module", "gait_started")
    /\ UNCHANGED <<cli, io, collect, serial_port, data_queue, hip_module_enabled, hip_process_thread,
                   gait_local, hip_local, bufs, det, force_pending, produced, obs,
                   gen, appended>>

\* toggle_hip_module (lines 2114-2143)
toggle_hip_module ==
    /\ gui.pc = "idle"
    /\ IF hip_module_enabled
       THEN /\ BeginStopHip("toggle_hip_module")
            /\ UNCHANGED <<hip_process_thread, bufs>>
       ELSE IF gait_module_enabled
       THEN /\ gui' = GuiIdle("toggle_hip_module", "error_gait_enabled")
            /\ UNCHANGED <<hip_module_enabled, hip_process_thread, bufs>>
       ELSE IF ~is_connected
       THEN /\ gui' = GuiIdle("toggle_hip_module", "error_not_connected")
            /\ UNCHANGED <<hip_module_enabled, hip_process_thread, bufs>>
       ELSE /\ start_hip_module
            /\ gui' = GuiIdle("toggle_hip_module", "hip_started")
    /\ UNCHANGED <<cli, io, collect, serial_port, data_queue, gait_module_enabled, gait_process_thread,
                   gait_local, hip_local, det, force_pending, produced, obs,
                   gen, appended>>

\* what a call of connect_serial (lines 122-136) may do: succeed, or raise
\* at serial.Serial(...), at reset_input_buffer / reset_output_buffer, or
\* at Thread.start() in start_data_reception
ConnectOutcomes == {"ok", "open_fails", "reset_fails", "start_fails"}

\* toggle_connection (lines 1091-1123)
toggle_connection ==
    /\ gui.pc = "idle"
    /\ IF is_connected
       THEN /\ IF gait_module_enabled
               THEN /\ BeginStopGait("toggle_connection")
                    /\ UNCHANGED <<serial_port, hip_module_enabled>>
               ELSE IF hip_module_enabled
               THEN /\ BeginStopHip("toggle_connection")
                    /\ UNCHANGED <<serial_port, gait_module_enabled>>
               ELSE /\ serial_port' = "None"
                    /\ gui' = GuiIdle("toggle_connection", "disconnected")
                    /\ UNCHANGED <<gait_module_enabled, hip_module_enabled>>
            /\ UNCHANGED collect
       ELSE /\ \E outcome \in ConnectOutcomes :
                   /\ outcome = "start_fails" => ~is_alive(collect.thread)
                   /\ serial_port' = IF outcome = "open_fails" THEN serial_port
                                     ELSE "open"
                   /\ collect' = IF outcome = "ok" THEN start_data_reception(collect)
                                 ELSE collect
                   /\ gui' = GuiIdle("toggle_connection",
                                     IF outcome = "ok" THEN "connected"
                                     ELSE "error_connect")
            /\ UNCHANGED <<gait_module_enabled, hip_module_enabled>>
    /\ UNCHANGED <<cli, io, data_queue, threads, bufs, det, force_pending, produced,
                   obs, gen, appended>>

\* self.gait_process_thread.join(timeout=2) returns: the thread has ended
JoinGaitDone ==
    /\ gui.pc = "join_gait"
    /\ ~is_alive(gait_process_thread)
    /\ gui' = [gui EXCEPT !.pc = "after_gait"]
    /\ UNCHANGED <<cli, io, collect, serial_port, data_queue, gait_module_enabled, hip_module_enabled,
                   threads, bufs, det, force_pending, produced, obs, gen, appended>>

\* ... or the two seconds have passed and the thread is still alive
JoinGaitTimeout ==
    /\ gui.pc = "join_gait"
    /\ is_alive(gait_process_thread)
    /\ gui' = [gui EXCEPT !.pc = "after_gait"]
    /\ UNCHANGED <<cli, io, collect, serial_port, data_queue, gait_module_enabled, hip_module_enabled,
                   threads, bufs, det, force_pending, produced, obs, gen, appended>>

JoinHipDone ==
    /\ gui.pc = "join_hip"
    /\ ~is_alive(hip_process_thread)
    /\ gui' = [gui EXCEPT !.pc = "after_hip"]
    /\ UNCHANGED <<cli, io, collect, serial_port, data_queue, gait_module_enabled, hip_module_enabled,
                   threads, bufs, det, force_pending, produced, obs, gen, appended>>

JoinHipTimeout ==
    /\ gui.pc = "join_hip"
    /\ is_alive(hip_process_thread)
    /\ gui' = [gui EXCEPT !.pc = "after_hip"]
    /\ UNCHANGED <<cli, io, collect, serial_port, data_queue, gait_module_enabled, hip_module_enabled,
                   threads, bufs, det, force_pending, produced, obs, gen, appended>>

\* the rest of the handler after stop_gait_module has returned
AfterStopGait ==
    /\ gui.pc = "after_gait"
    /\ IF gui.op = "toggle_connection"
       THEN IF hip_module_enabled
            THEN /\ BeginStopHip("toggle_connection")
                 /\ UNCHANGED serial_port
            ELSE /\ serial_port' = "None"
                 /\ gui' = GuiIdle("toggle_connection", "disconnected")
                 /\ UNCHANGED hip_module_enabled
       ELSE /\ gui' = GuiIdle("toggle_gait_module", "gait_stopped")
            /\ UNCHANGED <<serial_port, hip_module_enabled>>
    /\ UNCHANGED <<cli, io, collect, data_queue, gait_module_enabled, threads, bufs, det,
                   force_pending, produced, obs, gen, appended>>

\* the rest of the handler after stop_hip_module has returned
AfterStopHipClearing ==
    /\ gui.pc = "after_hip"
    /\ IF gui.op = "toggle_connection"
       THEN /\ serial_port' = "None"
            /\ gui' = GuiIdle("toggle_connection", "disconnected")
       ELSE /\ gui' = GuiIdle("toggle_hip_module", "hip_stopped")
            /\ UNCHANGED serial_port
    /\ time_data' = <<>>
    /\ hip_data' = <<>>
    /\ hip_filtered_data' = <<>>
    /\ UNCHANGED <<cli, io, collect, data_queue, gait_module_enabled, hip_module_enabled,
                   threads, ankle_data, hip_velocity_filtered_data, phase_data,
                   swing_progress_data, ankle_deg_data, ankle_ref_data, act_data,
                   det, force_pending, produced, obs, gen, appended>>

AfterStopHip ==
    /\ gui.pc = "after_hip"
    /\ IF gui.op = "toggle_connection"
       THEN /\ serial_port' = "None"
            /\ gui' = GuiIdle("toggle_connection", "disconnected")
       ELSE /\ gui' = GuiIdle("toggle_hip_module", "hip_stopped")
            /\ UNCHANGED serial_port
    /\ UNCHANGED <<cli, io, collect, data_queue, gait_module_enabled, hip_module_enabled, threads,
                   bufs, det, force_pending, produced, obs, gen, appended>>

\* clear_all_data (lines 691-714)
clear_all_data ==
    /\ time_data' = <<>>
    /\ hip_data' = <<>>
    /\ ankle_data' = <<>>
    /\ gait_cycle_time' = <<>>
    /\ gait_cycle_hip' = <<>>
    /\ gait_cycle_ankle' = <<>>
    /\ last_hip_angle' = None
    /\ cycle_start_time' = None
    /\ cycle_start_hip' = None
    /\ in_cycle' = FALSE
    /\ hip_angle_history' = <<>>
    /\ hip_angle_trend' = <<>>
    /\ last_peak_time' = None
    /\ last_peak_angle' = None
    /\ UNCHANGED <<hip_filtered_data, hip_velocity_filtered_data, phase_data,
                   swing_progress_data, ankle_deg_data, ankle_ref_data, act_data,
                   cycle_file, ev>>

\* clear_data, confirmed by the user (lines 1296-1308)
clear_data ==
    /\ gui.pc = "idle"
    /\ clear_all_data
    /\ force_pending' = TRUE
    /\ gui' = GuiIdle("clear_data", "cleared")
    /\ UNCHANGED <<cli, io, collect, serial_port, data_queue, gait_module_enabled, hip_module_enabled,
                   threads, produced, obs, gen, appended>>

\* the while loop of _force_update_plots (lines 1313-1327): q is the queue,
\* td, hd, ad the three buffers, count the records processed.  A record
\* without the key 'a' raises KeyError after it was taken from the queue.
RECURSIVE ForceDrain(_, _, _, _, _)
ForceDrain(q, td, hd, ad, count) ==
    IF q = <<>> \/ count >= FORCE_MAX_PROCESS
    THEN [q |-> q, td |-> td, hd |-> hd, ad |-> ad]
    ELSE LET data == Head(q)
         IN  IF {"t", "h", "a"} \subseteq DOMAIN data
             THEN ForceDrain(Tail(q),
                             DequeAppend(td, data["t"], MAX_DATA_POINTS),
                             DequeAppend(hd, data["h"], MAX_DATA_POINTS),
                             DequeAppend(ad, data["a"], MAX_DATA_POINTS),
                             count + 1)
             ELSE [q |-> Tail(q), td |-> td, hd |-> hd, ad |-> ad]

\* _force_update_plots, scheduled by clear_data with root.after(0, ...)
force_update_plots ==
    /\ gui.pc = "idle"
    /\ force_pending
    /\ force_pending' = FALSE
    /\ LET r == ForceDrain(data_queue, time_data, hip_data, ankle_data, 0)
       IN  /\ data_queue' = r.q
           /\ time_data' = r.td
           /\ hip_data' = r.hd
           /\ ankle_data' = r.ad
    /\ gui' = GuiIdle("force_update_plots", gui.result)
    /\ UNCHANGED <<cli, io, collect, serial_port, gait_module_enabled, hip_module_enabled, threads,
                   hip_filtered_data, hip_velocity_filtered_data, phase_data,
                   swing_progress_data, ankle_deg_data, ankle_ref_data, act_data,
                   det, produced, obs, gen, appended>>

\* get_gait_cycle_data (lines 833-837): what update_plots draws as the cycle
get_gait_cycle_data == <<gait_cycle_time, gait_cycle_hip, gait_cycle_ankle>>

\* get_realtime_data, called by update_plots on the GUI thread: the
\* lengths it reads at line 736
get_realtime_data ==
    /\ gui.pc = "idle"
    /\ obs' = Some([lens |-> RealtimeLens, hip_enabled |-> hip_module_enabled])
    /\ UNCHANGED <<cli, io, collect, serial_port, data_queue, gait_module_enabled, hip_module_enabled,
                   threads, bufs, det, gui, force_pending, produced, gen, appended>>

----------------------------------------------------------------------------
(* Spec: the collector driven by the GUI, with its producer and consumers  *)

Init ==
    /\ InitCollector
    /\ gen = NoSignal
    /\ collect = NoLink
    /\ cli = NoCli
    /\ io = NoFiles

Next ==
    \/ toggle_connection
    \/ toggle_gait_module
    \/ toggle_hip_module
    \/ JoinGaitDone
    \/ JoinGaitTimeout
    \/ JoinHipDone
    \/ JoinHipTimeout
    \/ AfterStopGait
    \/ AfterStopHip
    \/ clear_data
    \/ force_update_plots
    \/ Produce
    \/ GaitWhile
    \/ GaitReturn
    \/ GaitEmpty
    \/ GaitGet
    \/ GaitAppend
    \/ GaitDetect
    \/ HipWhile
    \/ HipReturn
    \/ HipEmpty
    \/ HipGet
    \/ HipAppend

Spec == Init /\ [][Next]_vars

----------------------------------------------------------------------------
(* SpecRead: Filtered mode in its steady state, as toggle_connection and   *)
(* toggle_hip_module leave it, with the display loop reading while the     *)
(* producer and the hip consumer run.                                      *)

InitRead ==
    /\ serial_port = "open"
    /\ data_queue = <<>>
    /\ gait_module_enabled = FALSE
    /\ hip_module_enabled = TRUE
    /\ gait_process_thread = "None"
    /\ hip_process_thread = "while"
    /\ gait_local = None
    /\ hip_local = None
    /\ time_data = <<>> /\ hip_data = <<>> /\ ankle_data = <<>>
    /\ hip_filtered_data = <<>> /\ hip_velocity_filtered_data = <<>>
    /\ phase_data = <<>> /\ swing_progress_data = <<>>
    /\ ankle_deg_data = <<>> /\ ankle_ref_data = <<>> /\ act_data = <<>>
    /\ gait_cycle_time = <<>> /\ gait_cycle_hip = <<>> /\ gait_cycle_ankle = <<>>
    /\ last_hip_angle = None
    /\ cycle_start_time = None
    /\ cycle_start_hip = None
    /\ in_cycle = FALSE
    /\ hip_angle_history = <<>>
    /\ hip_angle_trend = <<>>
    /\ last_peak_time = None
    /\ last_peak_angle = None
    /\ cycle_file = None
    /\ gui = GuiIdle("toggle_hip_module", "hip_started")
    /\ force_pending = FALSE
    /\ produced = 0
    /\ obs = None
    /\ ev = NoEvent(0)
    /\ gen = NoSignal
    /\ appended = <<>>
    /\ collect = Linked
    /\ cli = NoCli
    /\ io = NoFiles

NextRead ==
    \/ Produce
    \/ HipWhile
    \/ HipEmpty
    \/ HipGet
    \/ HipAppend
    \/ get_realtime_data

SpecRead == InitRead /\ [][NextRead]_vars

----------------------------------------------------------------------------
(* SpecBuf: the channel buffers under appends.  Each step is one whole     *)
(* iteration of _hip_process_loop on a record with every key; appended     *)
(* lists the record numbers in arrival order.  A run starts with empty     *)
(* buffers, or with the buffers as MAX_DATA_POINTS - 2 iterations leave    *)
(* them, so that the next iterations fill them and then overflow them.     *)

Prefix(k) == [i \in 1..k |-> i]

InitBuf ==
    /\ serial_port = "open"
    /\ data_queue = <<>>
    /\ gait_module_enabled = FALSE
    /\ hip_module_enabled = TRUE
    /\ gait_process_thread = "None"
    /\ hip_process_thread = "while"
    /\ gait_local = None
    /\ hip_local = None
    /\ \E k \in {0, MAX_DATA_POINTS - 2} :
           /\ appended = Prefix(k)
           /\ time_data = [i \in 1..k |-> Some(10 * i)]
           /\ hip_data = [i \in 1..k |-> Some(i)]
           /\ ankle_data = [i \in 1..k |-> Some(i)]
           /\ hip_filtered_data = [i \in 1..k |-> Some(i)]
           /\ hip_velocity_filtered_data = [i \in 1..k |-> Some(i)]
           /\ phase_data = [i \in 1..k |-> Some(i)]
           /\ swing_progress_data = [i \in 1..k |-> Some(i)]
           /\ ankle_deg_data = [i \in 1..k |-> Some(i)]
           /\ ankle_ref_data = [i \in 1..k |-> Some(i)]
           /\ act_data = [i \in 1..k |-> Some(i)]
    /\ gait_cycle_time = <<>> /\ gait_cycle_hip = <<>> /\ gait_cycle_ankle = <<>>
    /\ last_hip_angle = None
    /\ cycle_start_time = None
    /\ cycle_start_hip = None
    /\ in_cycle = FALSE
    /\ hip_angle_history = <<>>
    /\ hip_angle_trend = <<>>
    /\ last_peak_time = None
    /\ last_peak_angle = None
    /\ cycle_file = None
    /\ gui = GuiIdle("toggle_hip_module", "hip_started")
    /\ force_pending = FALSE
    /\ produced = 0
    /\ obs = None
    /\ ev = NoEvent(0)
    /\ gen = NoSignal
    /\ collect = Linked
    /\ cli = NoCli
    /\ io = NoFiles

\* the numbers the i-th record may carry
RecordNumbers(i) == {i, i + MAX_DATA_POINTS, i + 2 * MAX_DATA_POINTS}

\* a run ends MaxOverflow iterations after the two that follow its start
\* (which fill the buffers of a run that started two short of full)
RunLength ==
    (IF Len(appended) >= MAX_DATA_POINTS - 2 THEN MAX_DATA_POINTS ELSE 2) + MaxOverflow

HipIteration ==
    /\ Len(appended) < RunLength
    /\ \E n \in RecordNumbers(Len(appended) + 1) :
           /\ HipAppends(HipPcs, SampleDict(n, AllKeys))
           /\ appended' = Append(appended, n)
    /\ UNCHANGED <<cli, io, collect, serial_port, data_queue, gait_module_enabled, hip_module_enabled,
                   threads, det, gui, force_pending, produced, obs, gen>>

NextBuf == HipIteration

SpecBuf == InitBuf /\ [][NextBuf]_vars

----------------------------------------------------------------------------
(* The producer in detail.  _collect_data reads the bytes waiting on the   *)
(* serial port, decodes them, adds the text to its carry-over buffer, cuts *)
(* the buffer into lines and handles each line (lines 257-318).  Bytes and *)
(* characters are tokens: "LF" the newline, "SP" and "CR" whitespace, ">"  *)
(* and "Command:" the command echo markers, "{", "}", ",", the members "T" *)
(* for "t":1234, "H" for "h":15.5 and "A" for "a":9.0, "U" for a member    *)
(* with an unquoted key such as t:1234, "x" any other ASCII character, and *)
(* "C3", "A9" the two bytes of the UTF-8 encoding of U+00E9, which decode  *)
(* to the one character "E9".                                              *)
(* collect.wire holds the bytes not yet read, collect.buffer the local     *)
(* buffer, collect.raw_data_queue the raw-line queue; collect.stream (all  *)
(* bytes of the run), collect.framed (every line cut from the buffer so    *)
(* far) and collect.history (the lines get_raw_data has returned) record   *)
(* the run, collect.fed the bytes _collect_data has read.  collect.thread  *)
(* is the producer thread: "None", "dead", or the statement it executes    *)
(* next, the loop test "while" or the test for waiting bytes "poll".       *)
(* collect.commands counts the commands sent.                              *)

Whitespace == {"SP", "CR"}
Members == {"T", "H", "A"}

MemberKey(tok) == CASE tok = "T" -> "t" [] tok = "H" -> "h" [] tok = "A" -> "a"
KeyValue(key) == CASE key = "t" -> 1234 [] key = "h" -> 15 [] key = "a" -> 9

\* bytes.decode('utf-8', errors='ignore') of one chunk (line 262): a byte
\* that does not belong to a complete sequence inside the chunk is dropped
RECURSIVE decode_ignore(_)
decode_ignore(b) ==
    IF b = <<>> THEN <<>>
    ELSE IF b[1] = "C3"
    THEN IF Len(b) >= 2 /\ b[2] = "A9"
         THEN <<"E9">> \o decode_ignore(SubSeq(b, 3, Len(b)))
         ELSE decode_ignore(Tail(b))
    ELSE IF b[1] = "A9"
    THEN decode_ignore(Tail(b))
    ELSE <<b[1]>> \o decode_ignore(Tail(b))

\* str.find(c) + 1 and str.rfind(c) + 1: 0 when c is not in s
IndexOf(s, c) ==
    IF \E i \in 1..Len(s) : s[i] = c
    THEN CHOOSE i \in 1..Len(s) : s[i] = c /\ \A j \in 1..(i - 1) : s[j] # c
    ELSE 0

LastIndexOf(s, c) ==
    IF \E i \in 1..Len(s) : s[i] = c
    THEN CHOOSE i \in 1..Len(s) : s[i] = c /\ \A j \in (i + 1)..Len(s) : s[j] # c
    ELSE 0

\* str.strip()
strip(s) ==
    LET solid == {i \in 1..Len(s) : s[i] \notin Whitespace}
    IN  IF solid = {} THEN <<>>
        ELSE SubSeq(s, CHOOSE i \in solid : \A j \in solid : i <= j,
                       CHOOSE i \in solid : \A j \in solid : i >= j)

\* json.loads(s): None for JSONDecodeError, else the decoded object.  The
\* text is an object when, whitespace between tokens aside, it is "{", then
\* members separated by ",", then "}".
json_loads(s) ==
    LET toks == SelectSeq(s, LAMBDA c : c \notin Whitespace)
        n == Len(toks)
        inner == SubSeq(toks, 2, n - 1)
        wellformed ==
            /\ n >= 2
            /\ toks[1] = "{"
            /\ toks[n] = "}"
            /\ \/ inner = <<>>
               \/ /\ Len(inner) % 2 = 1
                  /\ \A i \in 1..Len(inner) :
                         IF i % 2 = 1 THEN inner[i] \in Members ELSE inner[i] = ","
        keys == {MemberKey(inner[i]) : i \in {j \in 1..Len(inner) : j % 2 = 1}}
    IN  IF wellformed THEN Some([k \in keys |-> Some(KeyValue(k))]) ELSE None

\* if 't' in data_dict and 'h' in data_dict (line 293)
HasMandatoryKeysEither(data_dict) ==
    "t" \in DOMAIN data_dict \/ "h" \in DOMAIN data_dict

HasMandatoryKeys(data_dict) ==
    "t" \in DOMAIN data_dict /\ "h" \in DOMAIN data_dict

\* line.startswith('>') or line.startswith('Command:') (line 276)
IsCommandEcho(line) == line[1] = ">" \/ line[1] = "Command:"

\* what is put on raw_data_queue for a line (line 280)
RawLineStripped(original_line, line) == line

RawLine(original_line, line) == original_line

\* the body of the inner while loop for one line (lines 268-318); st holds
\* raw_data_queue and data_queue
process_line(st, original_line) ==
    LET line == strip(original_line)
    IN  IF line = <<>> THEN st
        ELSE IF IsCommandEcho(line) THEN st
        ELSE LET st1 == [st EXCEPT !.raw_data_queue =
                                       Append(@, RawLine(original_line, line))]
                 start_idx == IndexOf(line, "{") - 1
                 end_idx == LastIndexOf(line, "}")
             IN  IF start_idx >= 0 /\ end_idx >= 1 /\ end_idx > start_idx
                 THEN LET data_dict == json_loads(SubSeq(line, start_idx + 1, end_idx))
                      IN  IF ~IsNone(data_dict) /\ HasMandatoryKeys(Val(data_dict))
                          THEN [st1 EXCEPT !.data_queue = Append(@, Val(data_dict))]
                          ELSE st1
                 ELSE st1

\* while '\n' in buffer: line, buffer = buffer.split('\n', 1) ... (lines 266-318)
RECURSIVE process_buffer(_)
process_buffer(st) ==
    LET nl == IndexOf(st.buffer, "LF")
    IN  IF nl = 0 THEN st
        ELSE LET original_line == SubSeq(st.buffer, 1, nl - 1)
                 rest == SubSeq(st.buffer, nl + 1, Len(st.buffer))
                 st1 == process_line(st, original_line)
             IN  process_buffer([st1 EXCEPT !.buffer = rest,
                                            !.framed = Append(@, original_line)])

\* one iteration of the loop of _collect_data with bytes waiting: it reads
\* all the bytes that have arrived so far, n of those of the run
collect_data ==
    /\ is_alive(collect.thread)
    /\ is_connected
    /\ collect.wire # <<>>
    /\ \E n \in 1..Len(collect.wire) :
           LET data == decode_ignore(SubSeq(collect.wire, 1, n))
               st == process_buffer([buffer |-> collect.buffer \o data,
                                     raw_data_queue |-> collect.raw_data_queue,
                                     data_queue |-> data_queue,
                                     framed |-> collect.framed])
           IN  /\ collect' = [collect EXCEPT
                                 !.wire = SubSeq(collect.wire, n + 1, Len(collect.wire)),
                                 !.fed = @ \o SubSeq(collect.wire, 1, n),
                                 !.buffer = st.buffer,
                                 !.raw_data_queue = st.raw_data_queue,
                                 !.framed = st.framed]
               /\ data_queue' = st.data_queue
    /\ UNCHANGED <<cli, io, serial_port, gait_module_enabled, hip_module_enabled, threads,
                   bufs, det, gui, force_pending, produced, obs, gen, appended>>

\* get_raw_data (lines 325-333), called by the GUI to fill its history
get_raw_data ==
    /\ collect.raw_data_queue # <<>>
    /\ collect' = [collect EXCEPT !.history = @ \o collect.raw_data_queue,
                                  !.raw_data_queue = <<>>]
    /\ UNCHANGED <<cli, io, serial_port, data_queue, gait_module_enabled, hip_module_enabled,
                   threads, bufs, det, gui, force_pending, produced, obs, gen,
                   appended>>

(* SpecCollect: the producer on a serial input made of up to MaxLines      *)
(* lines drawn from SampleLines, each ended by a newline, and possibly the *)
(* beginning of one more line.                                             *)

SampleLines ==
    {<<"{", "T", ",", "H", "}">>,
     <<"{", "T", "}">>,
     <<"{", "U", ",", "U", "}">>,
     <<">", "SP", "{", "T", ",", "H", "}">>,
     <<"Command:", "x">>,
     <<"x", "{", "H", ",", "SP", "T", ",", "A", "}", "x", "CR">>,
     <<"SP", "{", "T", ",", "H", "}", "}">>,
     <<"}", "{">>,
     <<"SP">>,
     <<"C3", "A9">>}

PartialLines == {<<>>, <<"{", "T">>}

RECURSIVE JoinLines(_)
JoinLines(lines) ==
    IF lines = <<>> THEN <<>>
    ELSE Head(lines) \o <<"LF">> \o JoinLines(Tail(lines))

Streams ==
    {JoinLines(lines) \o tail :
        lines \in UNION {[1..k -> SampleLines] : k \in 1..MaxLines},
        tail \in PartialLines}

\* the state toggle_connection leaves: the port open, no mode started
InitCollect ==
    /\ serial_port = "open"
    /\ data_queue = <<>>
    /\ gait_module_enabled = FALSE
    /\ hip_module_enabled = FALSE
    /\ gait_process_thread = "None"
    /\ hip_process_thread = "None"
    /\ gait_local = None
    /\ hip_local = None
    /\ time_data = <<>> /\ hip_data = <<>> /\ ankle_data = <<>>
    /\ hip_filtered_data = <<>> /\ hip_velocity_filtered_data = <<>>
    /\ phase_data = <<>> /\ swing_progress_data = <<>>
    /\ ankle_deg_data = <<>> /\ ankle_ref_data = <<>> /\ act_data = <<>>
    /\ gait_cycle_time = <<>> /\ gait_cycle_hip = <<>> /\ gait_cycle_ankle = <<>>
    /\ last_hip_angle = None
    /\ cycle_start_time = None
    /\ cycle_start_hip = None
    /\ in_cycle = FALSE
    /\ hip_angle_history = <<>>
    /\ hip_angle_trend = <<>>
    /\ last_peak_time = None
    /\ last_peak_angle = None
    /\ cycle_file = None
    /\ gui = GuiIdle("toggle_connection", "connected")
    /\ force_pending = FALSE
    /\ produced = 0
    /\ obs = None
    /\ ev = NoEvent(0)
    /\ gen = NoSignal
    /\ appended = <<>>
    /\ cli = NoCli
    /\ io = NoFiles
    /\ \E stream \in Streams :
           collect = [Linked EXCEPT !.wire = stream, !.stream = stream]

NextCollect ==
    \/ collect_data
    \/ get_raw_data

SpecCollect == InitCollect /\ [][NextCollect]_vars

(* SpecCmd: a serial input of one line and possibly the beginning of a     *)
(* second, while the user also sends up to MaxCommands commands.           *)

MaxCommands == 1

\* response_buffer.split('\n') (line 176)
RECURSIVE split_lines(_)
split_lines(s) ==
    LET nl == IndexOf(s, "LF")
    IN  IF nl = 0 THEN <<s>>
        ELSE <<SubSeq(s, 1, nl - 1)>> \o split_lines(SubSeq(s, nl + 1, Len(s)))

\* the loop over the lines of the response (lines 176-179)
RECURSIVE put_response(_, _)
put_response(queue, lines) ==
    IF lines = <<>> THEN queue
    ELSE LET line == strip(Head(lines))
         IN  put_response(IF line # <<>> /\ ~IsCommandEcho(line)
                          THEN Append(queue, line) ELSE queue,
                          Tail(lines))

\* send_command (lines 150-182), called by the handlers of the GUI thread:
\* after the write it reads, for at most 500 ms, the bytes waiting on the
\* port until the text read holds a newline: no read (n = 0), one read
\* (m = n), or a read without a newline and a second one
send_command ==
    /\ is_connected
    /\ gui.pc = "idle"
    /\ collect.commands < MaxCommands
    /\ \E n \in 0..Len(collect.wire) :
           \E m \in (IF n = 0 THEN {0} ELSE 1..n) :
               LET first == decode_ignore(SubSeq(collect.wire, 1, m))
                   response_buffer ==
                       first \o decode_ignore(SubSeq(collect.wire, m + 1, n))
               IN  /\ m < n => IndexOf(first, "LF") = 0
                   /\ collect' = [collect EXCEPT
                          !.wire = SubSeq(collect.wire, n + 1, Len(collect.wire)),
                          !.commands = @ + 1,
                          !.raw_data_queue =
                              IF response_buffer = <<>> THEN @
                              ELSE put_response(@, split_lines(response_buffer))]
    /\ gui' = GuiIdle("send_command", "command_sent")
    /\ UNCHANGED <<cli, io, serial_port, data_queue, gait_module_enabled, hip_module_enabled,
                   threads, bufs, det, force_pending, produced, obs, gen, appended>>

InitCmd ==
    /\ serial_port = "open"
    /\ data_queue = <<>>
    /\ gait_module_enabled = FALSE
    /\ hip_module_enabled = FALSE
    /\ gait_process_thread = "None"
    /\ hip_process_thread = "None"
    /\ gait_local = None
    /\ hip_local = None
    /\ time_data = <<>> /\ hip_data = <<>> /\ ankle_data = <<>>
    /\ hip_filtered_data = <<>> /\ hip_velocity_filtered_data = <<>>
    /\ phase_data = <<>> /\ swing_progress_data = <<>>
    /\ ankle_deg_data = <<>> /\ ankle_ref_data = <<>> /\ act_data = <<>>
    /\ gait_cycle_time = <<>> /\ gait_cycle_hip = <<>> /\ gait_cycle_ankle = <<>>
    /\ last_hip_angle = None
    /\ cycle_start_time = None
    /\ cycle_start_hip = None
    /\ in_cycle = FALSE
    /\ hip_angle_history = <<>>
    /\ hip_angle_trend = <<>>
    /\ last_peak_time = None
    /\ last_peak_angle = None
    /\ cycle_file = None
    /\ gui = GuiIdle("toggle_connection", "connected")
    /\ force_pending = FALSE
    /\ produced = 0
    /\ obs = None
    /\ ev = NoEvent(0)
    /\ gen = NoSignal
    /\ appended = <<>>
    /\ cli = NoCli
    /\ io = NoFiles
    /\ \E line \in SampleLines, tail \in PartialLines :
           LET stream == line \o <<"LF">> \o tail
           IN  collect = [Linked EXCEPT !.wire = stream, !.stream = stream]

NextCmd ==
    \/ collect_data
    \/ get_raw_data
    \/ send_command

SpecCmd == InitCmd /\ [][NextCmd]_vars

----------------------------------------------------------------------------
(* SpecLink: the link and the producer thread.  The GUI connects and       *)
(* disconnects, starts and stops the modes; no bytes arrive.               *)

\* while self.collect_thread and self.collect_thread.is_alive() (line 259),
\* evaluated by the producer thread itself
CollectWhile ==
    /\ collect.thread = "while"
    /\ collect' = [collect EXCEPT !.thread =
                      IF collect.thread # "None" /\ is_alive(collect.thread)
                      THEN "poll" ELSE "dead"]
    /\ UNCHANGED <<cli, io, serial_port, data_queue, gait_module_enabled, hip_module_enabled,
                   threads, bufs, det, gui, force_pending, produced, obs, gen,
                   appended>>

\* if self.serial_port and self.serial_port.in_waiting > 0 fails: the
\* thread sleeps 10 ms (lines 261, 320)
CollectIdle ==
    /\ collect.thread = "poll"
    /\ ~is_connected \/ collect.wire = <<>>
    /\ collect' = [collect EXCEPT !.thread = "while"]
    /\ UNCHANGED <<cli, io, serial_port, data_queue, gait_module_enabled, hip_module_enabled,
                   threads, bufs, det, gui, force_pending, produced, obs, gen,
                   appended>>

\* an exception in the body of the loop (a failing read, for one): the
\* except clause prints it and sleeps 100 ms (lines 321-323)
CollectFail ==
    /\ collect.thread = "poll"
    /\ collect' = [collect EXCEPT !.thread = "while"]
    /\ UNCHANGED <<cli, io, serial_port, data_queue, gait_module_enabled,
                   hip_module_enabled, threads, bufs, det, gui, force_pending,
                   produced, obs, gen, appended>>

NextLink ==
    \/ toggle_connection
    \/ toggle_gait_module
    \/ toggle_hip_module
    \/ JoinGaitDone
    \/ JoinGaitTimeout
    \/ JoinHipDone
    \/ JoinHipTimeout
    \/ AfterStopGait
    \/ AfterStopHip
    \/ GaitWhile
    \/ GaitReturn
    \/ GaitEmpty
    \/ HipWhile
    \/ HipReturn
    \/ HipEmpty
    \/ CollectWhile
    \/ CollectIdle
    \/ CollectFail

SpecLink == Init /\ [][NextLink]_vars

----------------------------------------------------------------------------
(* SpecCli: the collector of gait_data_collector.py, the command-line      *)
(* program.  main connects, starts the collection and calls process_data   *)
(* from its loop; the producer thread cli.collect_thread is "None", "dead" *)
(* or at its loop test "while" or in the loop body "read".  The records    *)
(* are numbered; cli.failures counts the exceptions raised in the body.    *)

MaxCliRecords == 3
MaxCliFailures == 2

CliUnchanged ==
    UNCHANGED <<serial_port, data_queue, gait_module_enabled, hip_module_enabled,
                threads, bufs, det, gui, force_pending, produced, obs, gen,
                appended, collect, io>>

\* connect_serial (lines 73-91) succeeds
CliConnectSerial ==
    /\ cli.serial_port = "None"
    /\ cli' = [cli EXCEPT !.serial_port = "open"]
    /\ CliUnchanged

\* start_collection (lines 114-128)
CliStartCollection ==
    /\ cli.serial_port = "open"
    /\ cli' = IF cli.is_collecting THEN cli
              ELSE [cli EXCEPT !.is_collecting = TRUE, !.collect_thread = "while"]
    /\ CliUnchanged

\* stop_collection (lines 130-135), the join aside
CliStopCollection ==
    /\ cli.is_collecting
    /\ cli' = [cli EXCEPT !.is_collecting = FALSE]
    /\ CliUnchanged

\* while self.is_collecting (line 140)
CliCollectWhile ==
    /\ cli.collect_thread = "while"
    /\ cli' = [cli EXCEPT !.collect_thread =
                  IF cli.is_collecting THEN "read" ELSE "dead"]
    /\ CliUnchanged

\* the loop body without an exception (lines 141-170): nothing is waiting,
\* or the bytes read hold one more record with 't', 'h' and 'a'
CliCollectRead ==
    /\ cli.collect_thread = "read"
    /\ \/ cli' = [cli EXCEPT !.collect_thread = "while"]
       \/ /\ Len(cli.data_queue) < MaxCliRecords
          /\ cli' = [cli EXCEPT !.collect_thread = "while",
                                !.data_queue = Append(@, SampleDict(Len(@) + 1, AllKeys))]
    /\ CliUnchanged

\* the loop body raises (a failing read, for one): lines 171-173 print the
\* error and break
CliCollectFail ==
    /\ cli.collect_thread = "read"
    /\ cli.failures < MaxCliFailures
    /\ cli' = [cli EXCEPT !.collect_thread = "dead", !.failures = @ + 1]
    /\ CliUnchanged

\* one iteration of the loop of process_data (lines 176-194), called by main
CliProcessData ==
    /\ cli.data_queue # <<>>
    /\ cli' = [cli EXCEPT !.data_queue = Tail(@)]
    /\ CliUnchanged

NextCli ==
    \/ CliConnectSerial
    \/ CliStartCollection
    \/ CliStopCollection
    \/ CliCollectWhile
    \/ CliCollectRead
    \/ CliCollectFail
    \/ CliProcessData

SpecCli == Init /\ [][NextCli]_vars

----------------------------------------------------------------------------
(* SpecFile: the JSON files.  A time in a file is the quotient of an       *)
(* integer by 1000.0; the model keeps the integer and counts the divisions *)
(* (the scale): an integer n of scale k stands for n / 1000^k              *)
(* milliseconds, so the timestamps of the device have scale 0 and the      *)
(* times _save_gait_cycle writes have scale 1.  The program starts with    *)
(* the cycle file an earlier run has emitted (or none); Filtered mode has   *)
(* filled the buffers and has been stopped; the user saves and loads       *)
(* folders.                                                                *)

MaxSaves == 1
MaxLoads == 2
MaxRows == 2

\* the instants time.time() * 1000 may return in load_realtime_data (line 634)
BaseTimes == {0, 7000}

\* "data" is DATA_FOLDER, which holds GAIT_CYCLE_FILE; "saved" is the folder
\* save_gait_cycle_as writes to
Folders == {"data", "saved"}

\* list[:n]
Take(s, n) == SubSeq(s, 1, IF n < Len(s) THEN n ELSE Len(s))

\* the milliseconds below 1024 for which int((n / 1000.0) * 1000) is n - 1 in
\* IEEE double arithmetic
TruncatedMillis == {1001, 1003, 1005, 1007, 1009, 1011, 1013, 1015, 1017, 1019,
                    1021, 1023}

\* int(rel_time * 1000) for rel_time = n / 1000.0 (lines 635, 650)
int_times_1000(n) == IF n \in TruncatedMillis THEN n - 1 ELSE n

\* load_gait_cycle (lines 594-619) on the decoded content of the file
load_gait_cycle_without_ankle(d, data) ==
    [d EXCEPT !.gait_cycle_time = data.time,
              !.gait_cycle_hip = data.hip_angle,
              !.gait_cycle_ankle = <<>>]

load_gait_cycle(d, data) ==
    [d EXCEPT !.gait_cycle_time = data.time,
              !.gait_cycle_hip = data.hip_angle,
              !.gait_cycle_ankle = data.ankle_angle]

\* cycle_data of save_gait_cycle_as (lines 1474-1495); the times gain one
\* division by 1000.0
cycle_data ==
    [cycle_duration |-> IF Len(gait_cycle_time) > 1
                        THEN gait_cycle_time[Len(gait_cycle_time)] - gait_cycle_time[1]
                        ELSE 0,
     data_points |-> Len(gait_cycle_time),
     time |-> [i \in 1..Len(gait_cycle_time) |-> gait_cycle_time[i] - gait_cycle_time[1]],
     hip_angle |-> gait_cycle_hip,
     ankle_angle |-> gait_cycle_ankle]

\* realtime_data of save_gait_cycle_as (lines 1497-1528)
realtime_data ==
    LET data_len == Len(time_data)
        start_time == Val(time_data[1])
    IN  [duration |-> IF data_len > 1 THEN Val(time_data[data_len]) - start_time ELSE 0,
         data_points |-> data_len,
         time |-> [i \in 1..data_len |-> Val(time_data[i]) - start_time],
         hip_angle |-> Take(hip_data, data_len),
         hip_filtered |-> Take(hip_filtered_data, data_len),
         ankle_angle |-> Take(ankle_data, data_len),
         ankle_deg |-> Take(ankle_deg_data, data_len),
         ankle_ref |-> Take(ankle_ref_data, data_len),
         phase |-> Take(phase_data, data_len),
         swing_progress |-> Take(swing_progress_data, data_len),
         act |-> Take(act_data, data_len)]

\* load_realtime_data (lines 621-689) on the decoded content of the file:
\* the nine buffers it clears and fills (hip_velocity_filtered_data is not
\* among them)
load_realtime_data(data, base_time) ==
    LET n == Len(data.time)
        start_offset == int_times_1000(data.time[1])
        has(s, i) == i <= Len(s)
        given(s, i) == has(s, i) /\ ~IsNone(s[i])
    IN  [time_data |->
             [i \in 1..n |-> Some(base_time + int_times_1000(data.time[i]) - start_offset)],
         hip_data |->
             [i \in 1..n |-> IF has(data.hip_angle, i) THEN data.hip_angle[i] ELSE Some(0)],
         ankle_data |->
             [i \in 1..n |-> IF has(data.ankle_angle, i) THEN data.ankle_angle[i]
                             ELSE Some(0)],
         hip_filtered_data |->
             [i \in 1..n |-> IF given(data.hip_filtered, i) THEN data.hip_filtered[i]
                             ELSE None],
         ankle_deg_data |->
             [i \in 1..n |-> IF given(data.ankle_deg, i) THEN data.ankle_deg[i]
                             ELSE IF has(data.ankle_angle, i) THEN data.ankle_angle[i]
                             ELSE Some(0)],
         ankle_ref_data |->
             [i \in 1..n |-> IF given(data.ankle_ref, i) THEN data.ankle_ref[i] ELSE None],
         phase_data |->
             [i \in 1..n |-> IF has(data.phase, i) THEN data.phase[i] ELSE Some(0)],
         swing_progress_data |->
             [i \in 1..n |-> IF given(data.swing_progress, i) THEN data.swing_progress[i]
                             ELSE Some(0)],
         act_data |->
             [i \in 1..n |-> IF has(data.act, i) THEN data.act[i] ELSE Some(0)]]

\* save_gait_cycle_as (lines 1435-1535), the folder chosen being "saved"
save_gait_cycle_as ==
    /\ gui.pc = "idle"
    /\ io.saves < MaxSaves
    /\ LET has_cycle_data == /\ Len(gait_cycle_time) > 0
                             /\ Len(gait_cycle_hip) > 0
                             /\ Len(gait_cycle_ankle) > 0
           has_realtime_data == Len(time_data) > 0
       IN  IF ~has_cycle_data /\ ~has_realtime_data
           THEN /\ gui' = GuiIdle("save_gait_cycle_as", "nothing_to_save")
                /\ io' = [io EXCEPT !.saves = @ + 1]
           ELSE /\ gui' = GuiIdle("save_gait_cycle_as", "saved")
                /\ io' = [io EXCEPT
                       !.saves = @ + 1,
                       !.cycle_json = IF has_cycle_data THEN Some(cycle_data) ELSE @,
                       !.cycle_json_scale = IF has_cycle_data THEN io.cycle_scale + 1 ELSE @,
                       !.realtime_json = IF has_realtime_data THEN Some(realtime_data)
                                         ELSE @,
                       !.saved_bufs = IF has_realtime_data THEN Some(bufs) ELSE @,
                       !.resaved = IF has_cycle_data
                                   THEN Some([time |-> gait_cycle_time,
                                              scale |-> io.cycle_scale,
                                              hip_angle |-> gait_cycle_hip,
                                              ankle_angle |-> gait_cycle_ankle])
                                   ELSE @]
    /\ UNCHANGED <<cli, collect, serial_port, data_queue, gait_module_enabled,
                   hip_module_enabled, threads, bufs, det, force_pending, produced,
                   obs, gen, appended>>

\* load_gait_cycle of the GUI (lines 1152-1206) on the folder chosen
gui_load_gait_cycle ==
    /\ gui.pc = "idle"
    /\ io.loads < MaxLoads
    /\ \E folder \in Folders, base_time \in BaseTimes :
         LET cycle == IF folder = "data" THEN cycle_file ELSE io.cycle_json
             scale == IF folder = "data" THEN 1 ELSE io.cycle_json_scale
             realtime == IF folder = "data" THEN None ELSE io.realtime_json
             loaded == IF IsNone(realtime) THEN [b \in {} |-> <<>>]
                       ELSE load_realtime_data(Val(realtime), base_time)
         IN  IF IsNone(cycle) /\ IsNone(realtime)
             THEN /\ gui' = GuiIdle("load_gait_cycle", "no_files")
                  /\ io' = [io EXCEPT !.loads = @ + 1, !.loaded = {}]
                  /\ UNCHANGED <<bufs, det>>
             ELSE /\ gui' = GuiIdle("load_gait_cycle", "loaded")
                  /\ SetDetState(IF IsNone(cycle) THEN DetState
                                 ELSE load_gait_cycle(DetState, Val(cycle)))
                  /\ IF IsNone(realtime)
                     THEN UNCHANGED bufs
                     ELSE /\ time_data' = loaded.time_data
                          /\ hip_data' = loaded.hip_data
                          /\ ankle_data' = loaded.ankle_data
                          /\ hip_filtered_data' = loaded.hip_filtered_data
                          /\ ankle_deg_data' = loaded.ankle_deg_data
                          /\ ankle_ref_data' = loaded.ankle_ref_data
                          /\ phase_data' = loaded.phase_data
                          /\ swing_progress_data' = loaded.swing_progress_data
                          /\ act_data' = loaded.act_data
                          /\ UNCHANGED hip_velocity_filtered_data
                  /\ io' = [io EXCEPT
                         !.loads = @ + 1,
                         !.cycle_scale = IF IsNone(cycle) THEN @ ELSE scale,
                         !.loaded = (IF IsNone(cycle) THEN {} ELSE {<<"cycle", folder>>})
                                    \cup (IF IsNone(realtime) THEN {}
                                          ELSE {<<"realtime", folder>>})]
    /\ UNCHANGED <<cli, collect, serial_port, data_queue, gait_module_enabled,
                   hip_module_enabled, threads, force_pending, produced,
                   obs, gen, appended>>

\* the samples of a cycle the detector has emitted: n samples 50 ms apart
\* from the instant t0, with or without ankle angles
EmittedCycle(n, t0, with_ankle) ==
    [gait_cycle_time |-> [i \in 1..n |-> t0 + 50 * i],
     gait_cycle_hip |-> [i \in 1..n |-> i],
     gait_cycle_ankle |-> [i \in 1..n |-> IF with_ankle THEN Some(2 * i) ELSE None]]

\* the ten buffers after _hip_process_loop has processed the records, the
\* gait module being off (lines 387-404 and 413-415)
HipBuffers(records) ==
    LET n == Len(records)
        ankle_deg(i) == DictGet(records[i], "a", None)
    IN  [time_data |-> [i \in 1..n |-> DictGet(records[i], "t", None)],
         hip_data |-> [i \in 1..n |-> DictGet(records[i], "h", None)],
         hip_filtered_data |-> [i \in 1..n |-> DictGet(records[i], "hf", None)],
         hip_velocity_filtered_data |-> [i \in 1..n |-> DictGet(records[i], "hvf", None)],
         phase_data |-> [i \in 1..n |-> DictGet(records[i], "phase", Some(0))],
         swing_progress_data |-> [i \in 1..n |-> DictGet(records[i], "s", Some(0))],
         ankle_deg_data |-> [i \in 1..n |-> ankle_deg(i)],
         ankle_ref_data |-> [i \in 1..n |-> DictGet(records[i], "ar", None)],
         act_data |-> [i \in 1..n |-> DictGet(records[i], "act", Some(0))],
         ankle_data |-> [i \in 1..n |-> IF IsNone(ankle_deg(i)) THEN Some(0)
                                        ELSE ankle_deg(i)]]

\* Filtered mode has processed the records of the device and has been
\* stopped; GAIT_CYCLE_FILE is absent or holds a record an earlier run emitted
InitFile ==
    /\ serial_port = "open"
    /\ gait_module_enabled = FALSE
    /\ hip_module_enabled = FALSE
    /\ gait_process_thread = "None"
    /\ hip_process_thread = "dead"
    /\ gait_local = None
    /\ hip_local = None
    /\ data_queue = <<>>
    /\ \E n \in 0..MaxRows : \E keys \in [1..n -> KeySets] :
         LET hip == HipBuffers([i \in 1..n |-> SampleDict(i, keys[i])])
         IN  /\ produced = n
             /\ appended = [i \in 1..n |-> i]
             /\ time_data = hip.time_data
             /\ hip_data = hip.hip_data
             /\ ankle_data = hip.ankle_data
             /\ hip_filtered_data = hip.hip_filtered_data
             /\ hip_velocity_filtered_data = hip.hip_velocity_filtered_data
             /\ phase_data = hip.phase_data
             /\ swing_progress_data = hip.swing_progress_data
             /\ ankle_deg_data = hip.ankle_deg_data
             /\ ankle_ref_data = hip.ankle_ref_data
             /\ act_data = hip.act_data
    /\ gait_cycle_time = <<>> /\ gait_cycle_hip = <<>> /\ gait_cycle_ankle = <<>>
    /\ last_hip_angle = None
    /\ cycle_start_time = None
    /\ cycle_start_hip = None
    /\ in_cycle = FALSE
    /\ hip_angle_history = <<>>
    /\ hip_angle_trend = <<>>
    /\ last_peak_time = None
    /\ last_peak_angle = None
    /\ ev = NoEvent(0)
    /\ \/ cycle_file = None /\ io = NoFiles
       \/ \E n \in {MIN_CYCLE_POINTS, MIN_CYCLE_POINTS + 1}, t0 \in {0, 5000},
             with_ankle \in BOOLEAN :
              LET emitted == EmittedCycle(n, t0, with_ankle)
                  d == [gait_cycle_time |-> emitted.gait_cycle_time,
                        gait_cycle_hip |-> emitted.gait_cycle_hip,
                        gait_cycle_ankle |-> emitted.gait_cycle_ankle,
                        cycle_file |-> None, ev |-> NoEvent(0)]
              IN  /\ cycle_file = save_gait_cycle(d).cycle_file
                  /\ io = [NoFiles EXCEPT !.record = Some(emitted)]
    /\ gui = GuiIdle("toggle_hip_module", "hip_stopped")
    /\ force_pending = FALSE
    /\ obs = None
    /\ gen = NoSignal
    /\ collect = Linked
    /\ cli = NoCli

NextFile ==
    \/ save_gait_cycle_as
    \/ gui_load_gait_cycle

SpecFile == InitFile /\ [][NextFile]_vars

----------------------------------------------------------------------------
(* SpecStop: the modes are started and stopped over a connected link with  *)
(* the records the producer has queued so far; the display loop takes no   *)
(* step.  A consumer thread that can take a step eventually takes it: the  *)
(* threads are runnable operating system threads, and each step is enabled *)
(* until the thread takes it.                                              *)

InitStop ==
    /\ serial_port = "open"
    /\ \E n \in 0..MaxProduced, keys \in KeySets :
           /\ data_queue = [i \in 1..n |-> SampleDict(i, keys)]
           /\ produced = n
    /\ gait_module_enabled = FALSE
    /\ hip_module_enabled = FALSE
    /\ gait_process_thread = "None"
    /\ hip_process_thread = "None"
    /\ gait_local = None
    /\ hip_local = None
    /\ time_data = <<>> /\ hip_data = <<>> /\ ankle_data = <<>>
    /\ hip_filtered_data = <<>> /\ hip_velocity_filtered_data = <<>>
    /\ phase_data = <<>> /\ swing_progress_data = <<>>
    /\ ankle_deg_data = <<>> /\ ankle_ref_data = <<>> /\ act_data = <<>>
    /\ gait_cycle_time = <<>> /\ gait_cycle_hip = <<>> /\ gait_cycle_ankle = <<>>
    /\ last_hip_angle = None
    /\ cycle_start_time = None
    /\ cycle_start_hip = None
    /\ in_cycle = FALSE
    /\ hip_angle_history = <<>>
    /\ hip_angle_trend = <<>>
    /\ last_peak_time = None
    /\ last_peak_angle = None
    /\ cycle_file = None
    /\ gui = GuiIdle("toggle_connection", "connected")
    /\ force_pending = FALSE
    /\ obs = None
    /\ ev = NoEvent(0)
    /\ gen = NoSignal
    /\ appended = <<>>
    /\ collect = Linked
    /\ cli = NoCli
    /\ io = NoFiles

NextStop ==
    \/ toggle_gait_module
    \/ toggle_hip_module
    \/ JoinGaitDone
    \/ JoinGaitTimeout
    \/ JoinHipDone
    \/ JoinHipTimeout
    \/ AfterStopGait
    \/ AfterStopHip
    \/ GaitWhile
    \/ GaitReturn
    \/ GaitEmpty
    \/ GaitGet
    \/ GaitAppend
    \/ GaitDetect
    \/ HipWhile
    \/ HipReturn
    \/ HipEmpty
    \/ HipGet
    \/ HipAppend

ConsumersRun ==
    /\ WF_vars(GaitWhile) /\ WF_vars(GaitEmpty) /\ WF_vars(GaitGet)
    /\ WF_vars(GaitAppend) /\ WF_vars(GaitDetect) /\ WF_vars(GaitReturn)
    /\ WF_vars(HipWhile) /\ WF_vars(HipEmpty) /\ WF_vars(HipGet)
    /\ WF_vars(HipAppend) /\ WF_vars(HipReturn)

SpecStop == InitStop /\ [][NextStop]_vars /\ ConsumersRun

----------------------------------------------------------------------------
(* SpecSnap: the display loop reads one snapshot with get_realtime_data    *)
(* while the hip consumer appends the queued records.  The buffers are     *)
(* empty or full (MAX_DATA_POINTS entries, so that every append evicts the *)
(* oldest entry).  get_realtime_data builds its five lists one after the   *)
(* other without a lock; the consumer may run between two of them.         *)
(* gui.pc names the list built next, obs holds the lists built so far;     *)
(* times are kept in milliseconds (the code divides by 1000.0).            *)

MaxSnaps == 1

\* the five lists of a snapshot that has been returned, none built
NoSnapshot(lens) ==
    [lens |-> lens, hip_enabled |-> hip_module_enabled, min_len |-> 0,
     latest_time |-> 0, relative_time |-> <<>>, hip_data |-> <<>>,
     hip_filtered |-> <<>>, ankle_deg |-> <<>>, act_data |-> <<>>, done |-> TRUE,
     calls |-> IF IsNone(obs) THEN 1 ELSE Val(obs).calls + 1]

\* min(...) of line 736
MinLen(lens) == CHOOSE m \in {lens[i] : i \in 1..Len(lens)} :
                    \A i \in 1..Len(lens) : m <= lens[i]

\* lines 716-763: the tests for empty buffers, min_len and relative_time
SnapBegin ==
    /\ gui.pc = "idle"
    /\ (IF IsNone(obs) THEN 0 ELSE Val(obs).calls) < MaxSnaps
    /\ LET min_len == MinLen(RealtimeLens)
       IN  IF Len(time_data) = 0 \/ Len(hip_data) = 0 \/ min_len = 0
           THEN /\ obs' = Some(NoSnapshot(RealtimeLens))
                /\ gui' = GuiIdle("get_realtime_data", "snapshot")
           ELSE LET latest_time == Val(time_data[Len(time_data)])
                IN  /\ obs' = Some([NoSnapshot(RealtimeLens) EXCEPT
                               !.min_len = min_len,
                               !.latest_time = latest_time,
                               !.relative_time =
                                   [i \in 1..min_len |-> Val(time_data[i]) - latest_time],
                               !.done = FALSE])
                    /\ gui' = [pc |-> "snap_hip", op |-> "get_realtime_data",
                               result |-> gui.result]
    /\ UNCHANGED <<cli, io, collect, serial_port, data_queue, gait_module_enabled,
                   hip_module_enabled, threads, bufs, det, force_pending, produced,
                   gen, appended>>

\* list[i] if i < len(list) else default, for the indices of the snapshot
SnapList(buf, min_len, default) ==
    [i \in 1..min_len |-> IF i <= Len(buf) THEN buf[i] ELSE default]

\* lines 764-773 and 784: hip_data, hip_filtered, ankle_deg and act_data are
\* built in this order, then the five lists are returned
SnapSeries ==
    /\ gui.pc \in {"snap_hip", "snap_hf", "snap_adeg", "snap_act"}
    /\ LET snap == Val(obs)
       IN  CASE gui.pc = "snap_hip" ->
                  /\ obs' = Some([snap EXCEPT !.hip_data =
                                      [i \in 1..snap.min_len |-> hip_data[i]]])
                  /\ gui' = [gui EXCEPT !.pc = "snap_hf"]
             [] gui.pc = "snap_hf" ->
                  /\ obs' = Some([snap EXCEPT !.hip_filtered =
                                      SnapList(hip_filtered_data, snap.min_len, None)])
                  /\ gui' = [gui EXCEPT !.pc = "snap_adeg"]
             [] gui.pc = "snap_adeg" ->
                  /\ obs' = Some([snap EXCEPT !.ankle_deg =
                                      SnapList(ankle_deg_data, snap.min_len, None)])
                  /\ gui' = [gui EXCEPT !.pc = "snap_act"]
             [] gui.pc = "snap_act" ->
                  /\ obs' = Some([snap EXCEPT !.act_data =
                                      SnapList(act_data, snap.min_len, Some(0)),
                                  !.done = TRUE])
                  /\ gui' = GuiIdle("get_realtime_data", "snapshot")
    /\ UNCHANGED <<cli, io, collect, serial_port, data_queue, gait_module_enabled,
                   hip_module_enabled, threads, bufs, det, force_pending, produced,
                   gen, appended>>

\* Filtered mode is running; the buffers hold the samples 1..k, for k = 0 or
\* k = MAX_DATA_POINTS, and the producer has queued the next samples
InitSnap ==
    /\ serial_port = "open"
    /\ gait_module_enabled = FALSE
    /\ hip_module_enabled = TRUE
    /\ gait_process_thread = "None"
    /\ hip_process_thread = "while"
    /\ gait_local = None
    /\ hip_local = None
    /\ \E k \in {0, MAX_DATA_POINTS}, n \in 1..MaxRows :
           /\ appended = Prefix(k)
           /\ produced = k + n
           /\ data_queue = [i \in 1..n |-> SampleDict(k + i, AllKeys)]
           /\ time_data = [i \in 1..k |-> Some(10 * i)]
           /\ hip_data = [i \in 1..k |-> Some(i)]
           /\ ankle_data = [i \in 1..k |-> Some(i)]
           /\ hip_filtered_data = [i \in 1..k |-> Some(i)]
           /\ hip_velocity_filtered_data = [i \in 1..k |-> Some(i)]
           /\ phase_data = [i \in 1..k |-> Some(i)]
           /\ swing_progress_data = [i \in 1..k |-> Some(i)]
           /\ ankle_deg_data = [i \in 1..k |-> Some(i)]
           /\ ankle_ref_data = [i \in 1..k |-> Some(i)]
           /\ act_data = [i \in 1..k |-> Some(i)]
    /\ gait_cycle_time = <<>> /\ gait_cycle_hip = <<>> /\ gait_cycle_ankle = <<>>
    /\ last_hip_angle = None
    /\ cycle_start_time = None
    /\ cycle_start_hip = None
    /\ in_cycle = FALSE
    /\ hip_angle_history = <<>>
    /\ hip_angle_trend = <<>>
    /\ last_peak_time = None
    /\ last_peak_angle = None
    /\ cycle_file = None
    /\ gui = GuiIdle("toggle_hip_module", "hip_started")
    /\ force_pending = FALSE
    /\ obs = None
    /\ ev = NoEvent(0)
    /\ gen = NoSignal
    /\ collect = Linked
    /\ cli = NoCli
    /\ io = NoFiles

NextSnap ==
    \/ SnapBegin
    \/ SnapSeries
    \/ HipWhile
    \/ HipEmpty
    \/ HipGet
    \/ HipAppend

SpecSnap == InitSnap /\ [][NextSnap]_vars

----------------------------------------------------------------------------
(* Claims                                                                  *)

\* C1: after any sequence of toggle_gait_module, toggle_hip_module and
\* toggle_connection, gait_module_enabled and hip_module_enabled are never
\* both true.
C1_AtMostOneModeEnabled == ~(gait_module_enabled /\ hip_module_enabled)

\* toggle_gait_module was refused while the hip module is enabled
C1_Witness == hip_module_enabled /\ gui.result = "error_hip_enabled"

\* a consumer thread that may still append: it is alive and is not about to
\* leave its loop at the while test
CanAppend(th, enabled) == is_alive(th) /\ (th # "while" \/ enabled)

\* C2: at every moment at most one of the gait and hip consumer threads is
\* alive and able to append to the channel buffers, also after a stop whose
\* join timed out followed by a start of the other mode.
C2_OneConsumerAtATime ==
    ~(/\ CanAppend(gait_process_thread, gait_module_enabled)
      /\ CanAppend(hip_process_thread, hip_module_enabled))

ConsumerBetweenSteps(th) == th \in {"None", "dead", "while", "empty", "get", "return"}

\* C3: whenever no consumer step is in progress, the ten channel buffers
\* that Filtered mode writes all have the same length.
C3_BuffersInLockStep ==
    (/\ ConsumerBetweenSteps(gait_process_thread)
     /\ ConsumerBetweenSteps(hip_process_thread))
    => \A i, j \in 1..Len(AllLens) : AllLens[i] = AllLens[j]

\* C4: while the hip consumer appends, a reader of the channel buffers never
\* sees two channels of the active mode with different lengths.
C4_ReaderSeesEqualLengths ==
    ~IsNone(obs) =>
        \A i, j \in 1..Len(Val(obs).lens) : Val(obs).lens[i] = Val(obs).lens[j]

\* the last n elements of s
LastN(s, n) == SubSeq(s, Len(s) - n + 1, Len(s))

\* what a buffer must hold: the values, in arrival order, of the last
\* MAX_DATA_POINTS records (all of them while there are fewer)
ExpectedBuffer(scale) ==
    LET kept == IF Len(appended) > MAX_DATA_POINTS
                THEN LastN(appended, MAX_DATA_POINTS) ELSE appended
    IN  [i \in 1..Len(kept) |-> Some(scale * kept[i])]

\* C5: no channel buffer is ever longer than MAX_DATA_POINTS = 2000, and
\* after 2000 + k appends each buffer holds exactly the last 2000 appended
\* values in arrival order.
C5_BufferKeepsLastN ==
    /\ \A i \in 1..Len(AllLens) : AllLens[i] <= MAX_DATA_POINTS
    /\ time_data = ExpectedBuffer(10)
    /\ \A b \in {hip_data, ankle_data, hip_filtered_data, hip_velocity_filtered_data,
                  phase_data, swing_progress_data, ankle_deg_data, ankle_ref_data,
                  act_data} : b = ExpectedBuffer(1)

\* more than MAX_DATA_POINTS records were appended and the oldest is gone
C5_Witness ==
    /\ Len(appended) > MAX_DATA_POINTS
    /\ Len(time_data) = MAX_DATA_POINTS
    /\ time_data[1] # Some(10 * appended[1])
    /\ time_data[MAX_DATA_POINTS] = Some(10 * appended[Len(appended)])

\* the distance between the last two extrema of the input signal
LastGap == Val(gen.ext2) - Val(gen.ext1)

\* C6: a cycle file is written only at a detector step that confirms a peak
\* lying between 800 ms and 3000 ms after the previously recorded peak, and
\* only when the accumulating cycle holds at least 20 samples; the two
\* peaks are the last two extrema of the signal.
C6_RecordOnlyForPeakPairInRange ==
    ev.emitted =>
        /\ ev.peak
        /\ ~IsNone(ev.prior)
        /\ ev.peak_time = gen.ext2
        /\ ev.prior = gen.ext1
        /\ min_cycle_duration <= LastGap
        /\ LastGap <= max_cycle_duration
        /\ ev.points >= MIN_CYCLE_POINTS

\* a record was written for two extrema 1500 ms apart
C6_Witness == ev.emitted /\ ~IsNone(gen.ext1) /\ LastGap = 1500

\* C7: whenever the second of two consecutive extrema that are 800 ms to
\* 3000 ms apart, with at least 20 samples from the first to the second, is
\* confirmed, a cycle file is written.
C7_EveryPairInRangeIsRecorded ==
    (/\ ev.peak
     /\ ~IsNone(gen.ext1)
     /\ ev.peak_time = gen.ext2
     /\ min_cycle_duration <= LastGap
     /\ LastGap <= max_cycle_duration
     /\ (LastGap \div gen.dt) + 1 >= MIN_CYCLE_POINTS)
    => ev.emitted

\* C8: a periodic signal of period 1200 ms sampled every 10 ms for 10
\* periods yields one cycle file per completed period, and the file at the
\* end holds one period, the last one.
C8_OneRecordPerPeriod ==
    (gen.mode = "periodic" /\ gen.done) =>
        /\ ev.saves = Periodic.periods - 1
        /\ ~IsNone(cycle_file)
        /\ Val(cycle_file).cycle_duration = 2 * Periodic.half

\* C9: every written record holds exactly the samples of one peak-to-peak
\* interval: it starts at the previously recorded peak, ends at the newly
\* confirmed peak and holds no sample taken before the previous peak.
C9_RecordIsOnePeakInterval ==
    ev.emitted =>
        /\ ev.saved_time[1] = Val(ev.prior)
        /\ ev.saved_time[Len(ev.saved_time)] = Val(ev.peak_time)
        /\ \A i \in 1..Len(ev.saved_time) : ev.saved_time[i] >= Val(ev.prior)

\* C10: after every detector step that confirms a peak while a prior peak
\* is recorded, every sample taken before the new peak has been dropped
\* from the accumulating cycle.
C10_CycleBeginsAtNewPeak ==
    (ev.peak /\ ~IsNone(ev.prior)) =>
        \A i \in 1..Len(gait_cycle_time) : gait_cycle_time[i] >= Val(ev.peak_time)

\* every channel buffer is empty
AllBuffersEmpty == \A i \in 1..Len(AllLens) : AllLens[i] = 0

\* the detector as __init__ leaves it: last angle and last peak unset, trend
\* history, peak history and accumulating cycle empty
DetectorUninitialized ==
    /\ IsNone(last_hip_angle)
    /\ IsNone(last_peak_time)
    /\ IsNone(last_peak_angle)
    /\ hip_angle_trend = <<>>
    /\ hip_angle_history = <<>>
    /\ get_gait_cycle_data = <<<<>>, <<>>, <<>>>>

\* C11: the cycle that get_gait_cycle_data exposes changes only at a
\* detector step that confirms a new cycle (writes a record); it never
\* shows a cycle that is still accumulating.
C11_ExposedCycleChangesOnlyOnConfirm ==
    [][get_gait_cycle_data' # get_gait_cycle_data => ev'.emitted]_vars

\* C12: when Raw mode is started again after it has processed samples and
\* was stopped, every channel buffer is empty and the detector is
\* uninitialized right after the start.
C12_GaitRestartStartsFresh ==
    [][(/\ toggle_gait_module
        /\ ~gait_module_enabled
        /\ gait_module_enabled'
        /\ ~IsNone(last_hip_angle))
       => (AllBuffersEmpty' /\ DetectorUninitialized')]_vars

\* the buffers start_hip_module clears
HipStartCleared ==
    <<time_data, hip_data, hip_filtered_data, ankle_deg_data, phase_data,
      swing_progress_data, ankle_ref_data, act_data>>

StopHipStep ==
    /\ gui' # gui
    /\ \/ hip_module_enabled /\ ~hip_module_enabled'
       \/ gui.pc \in {"join_hip", "after_hip"}

\* C14: stop_hip_module changes no channel buffer: what the consumer has
\* buffered is still there once the module is stopped.
C14_StopHipKeepsBuffers == [][StopHipStep => bufs' = bufs]_vars

\* Filtered mode was stopped, its thread has exited and the sample it
\* buffered is still in all ten buffers
C14_Witness ==
    /\ gui.result = "hip_stopped"
    /\ hip_process_thread = "dead"
    /\ \A i \in 1..Len(AllLens) : AllLens[i] = 1

\* C15: after clear_data (clear_all_data) with no consumer thread running,
\* all ten channel buffers are empty and the detector is uninitialized.
C15_ClearEmptiesEverything ==
    [][(/\ clear_data
        /\ ~is_alive(gait_process_thread)
        /\ ~is_alive(hip_process_thread))
       => (AllBuffersEmpty' /\ DetectorUninitialized')]_vars

\* C16: with only the Raw-mode consumer and clear_all_data at work, the
\* time, hip and ankle buffers have the same length whenever the consumer
\* is between two steps: no step is cut in two by a clear.
C16_ClearAtomicForGaitConsumer ==
    (/\ hip_process_thread = "None"
     /\ ConsumerBetweenSteps(gait_process_thread))
    => (Len(time_data) = Len(hip_data) /\ Len(hip_data) = Len(ankle_data))

\* the text of a line from its first "{" to its last "}", empty when there
\* is no such text
BraceSubstring(line) ==
    LET i == IndexOf(line, "{")
        j == LastIndexOf(line, "}")
    IN  IF i > 0 /\ j > i THEN SubSeq(line, i, j) ELSE <<>>

\* the brace substring of the line decodes as a record with keys t and h
DecodesWithBothKeys(line) ==
    LET r == json_loads(BraceSubstring(line))
    IN  ~IsNone(r) /\ {"t", "h"} \subseteq DOMAIN Val(r)

\* the line is not dropped by the filter of lines 269-277
Survives(line) == strip(line) # <<>> /\ ~IsCommandEcho(strip(line))

SurvivesAndDecodes(line) == Survives(line) /\ DecodesWithBothKeys(line)

\* the records decoded from the brace substrings of lines
RecordsOf(lines) == [i \in 1..Len(lines) |-> Val(json_loads(BraceSubstring(lines[i])))]

\* C17 as stated: the handoff queue holds, in order, the record of every
\* line read so far whose brace substring decodes with both keys t and h,
\* and nothing else.
C17_QueuedIffDecodesWithBothKeys ==
    data_queue = RecordsOf(SelectSeq(collect.framed, DecodesWithBothKeys))

\* C17 amended: the same for the lines that are not empty after trimming
\* and do not start with '>' or 'Command:'; the other lines put nothing on
\* the queue.
C17_QueuedIffSurvivesAndDecodes ==
    data_queue = RecordsOf(SelectSeq(collect.framed, SurvivesAndDecodes))

\* a line that fails to decode and a line without h were read and
\* discarded, and the complete record read after them is on the queue
C17_Witness ==
    /\ collect.wire = <<>>
    /\ \E i \in 1..Len(collect.framed) : collect.framed[i] = <<"{", "U", ",", "U", "}">>
    /\ Len(data_queue) = 1
    /\ collect.framed[Len(collect.framed)] = <<"{", "T", ",", "H", "}">>

\* the lines and the partial line left when the whole input is read as one
\* chunk
OneChunk ==
    process_buffer([buffer |-> decode_ignore(collect.stream), raw_data_queue |-> <<>>,
                    data_queue |-> <<>>, framed |-> <<>>])

\* C18: once the whole input is read, the lines cut from it and the partial
\* line kept are the same whatever the chunks were: they are those of the
\* input read as one chunk.
C18_FramingIndependentOfChunks ==
    collect.wire = <<>> =>
        /\ collect.framed = OneChunk.framed
        /\ collect.buffer = OneChunk.buffer

\* C19 as stated: every line cut from the input has been put, as it is, on
\* the raw-line queue.
C19_EveryLineOnRawQueue ==
    collect.history \o collect.raw_data_queue = collect.framed

\* C19 amended: every line that is not empty after trimming and does not
\* start with '>' or 'Command:' has been put, untrimmed, on the raw-line
\* queue, whether or not a record was decoded from it or accepted; the
\* other lines are not put.
C19_EverySurvivingLineOnRawQueue ==
    collect.history \o collect.raw_data_queue = SelectSeq(collect.framed, Survives)

\* a line without a record and a line with a record and a trailing carriage
\* return have reached the history as they were read
C19_Witness ==
    /\ collect.wire = <<>>
    /\ collect.history =
           <<<<"}", "{">>, <<"x", "{", "H", ",", "SP", "T", ",", "A", "}", "x", "CR">>>>

\* the last element of a non-empty sequence
Last(s) == s[Len(s)]

\* the slot of channel buffer buf for the record data with optional field
\* key: it exists, holds the field when present and absent_value otherwise
SlotHolds(buf, data, key, absent_value) ==
    /\ Len(buf) = Len(time_data)
    /\ Last(buf) = DictGet(data, key, absent_value)

RefusedStart ==
    \/ /\ toggle_gait_module
       /\ ~gait_module_enabled
       /\ (hip_module_enabled \/ ~is_connected)
    \/ /\ toggle_hip_module
       /\ ~hip_module_enabled
       /\ (gait_module_enabled \/ ~is_connected)

\* C21: a request to start a mode while the other mode is enabled or while
\* the link is not connected reports an error and changes neither flag,
\* neither consumer thread, no channel buffer and nothing of the detector.
C21_RefusedStartChangesNothing ==
    [][RefusedStart =>
          /\ gui'.result \in {"error_hip_enabled", "error_gait_enabled",
                              "error_not_connected"}
          /\ UNCHANGED <<serial_port, data_queue, gait_module_enabled,
                         hip_module_enabled, threads, bufs, det>>]_vars

\* toggle_hip_module was refused while the gait module runs
C21_Witness ==
    /\ gui.result = "error_gait_enabled"
    /\ gait_module_enabled
    /\ is_alive(gait_process_thread)

\* a step that takes a record from the handoff queue or makes a channel
\* buffer longer
TakesOrAppends ==
    \/ Len(data_queue') < Len(data_queue)
    \/ \E i \in 1..Len(AllLens) : AllLens[i]' > AllLens[i]

\* C25: while a mode is enabled, only steps of that mode's consumer thread
\* take records from the handoff queue or append to the channel buffers.
C25_OnlyActiveConsumerTakesSamples ==
    [][((gait_module_enabled \/ hip_module_enabled) /\ TakesOrAppends)
       => \/ gait_module_enabled /\ (GaitGet \/ GaitAppend)
          \/ hip_module_enabled /\ (HipGet \/ HipAppend)]_vars

\* C22: once the link is disconnected, the producer thread leaves its loop
\* at its next loop test: it does not outlive the link.
C22_ProducerEndsWithItsLink ==
    [][(CollectWhile /\ ~is_connected) => ~is_alive(collect'.thread)]_vars

\* C23: once a mode's enabled flag is false, its consumer thread ends its
\* loop (unless the mode is enabled again first), whether data_queue is
\* empty or not, when the consumer threads are scheduled fairly and the
\* display loop does nothing.
C23_StoppedConsumerExits ==
    /\ (~gait_module_enabled /\ is_alive(gait_process_thread))
          ~> (~is_alive(gait_process_thread) \/ gait_module_enabled)
    /\ (~hip_module_enabled /\ is_alive(hip_process_thread))
          ~> (~is_alive(hip_process_thread) \/ hip_module_enabled)

C23_Witness ==
    /\ ~gait_module_enabled
    /\ gait_process_thread = "dead"
    /\ data_queue # <<>>
    /\ gui.result = "gait_stopped"

\* C24: only _collect_data reads bytes from the serial port: every byte of
\* the run has been read by the producer thread or is still unread.
C24_OnlyProducerReadsLink == collect.fed \o collect.wire = collect.stream

\* a detector step on a sample that comes more than the ceiling after the
\* cycle start: the step reports it, or no peak is confirmed in the step
\* (which would move the cycle start first) and the sample is that late
TimeoutStep ==
    /\ Feed
    /\ in_cycle
    /\ ~IsNone(last_hip_angle)
    /\ \/ ev'.timeout
       \/ ~ev'.peak /\ gen.t - Val(cycle_start_time) > 3000

\* a detector step on the sample that follows an abandoned cycle
FreshStep ==
    /\ Feed
    /\ ~in_cycle
    /\ ~IsNone(last_hip_angle)

\* C26: a step on a sample more than 3000 ms after the cycle start empties
\* the accumulating cycle and forgets the last peak, and the step on the
\* next sample starts a cycle that holds that sample only and has the
\* sample's timestamp as cycle start.
C26_CeilingAbandonsCycleAndNextSampleRestarts ==
    [][/\ TimeoutStep =>
            /\ get_gait_cycle_data' = <<<<>>, <<>>, <<>>>>
            /\ IsNone(last_peak_time') /\ IsNone(last_peak_angle')
            /\ ~in_cycle'
       /\ FreshStep =>
            /\ get_gait_cycle_data' = <<<<gen.t>>, <<gen.h>>, <<None>>>>
            /\ cycle_start_time' = Some(gen.t)
            /\ in_cycle']_vars

C26_Witness ==
    /\ in_cycle
    /\ Len(gait_cycle_time) = 1
    /\ cycle_start_time = Some(gait_cycle_time[1])
    /\ IsNone(last_peak_time)
    /\ Len(hip_angle_trend) = TREND_MAXLEN

\* C27 as stated: a step on a sample more than 3000 ms after the cycle
\* start leaves the whole detector state empty or unset.
C27_CeilingResetsWholeDetector ==
    [][TimeoutStep => DetectorUninitialized']_vars

\* C27: such a step empties the accumulating cycle, unsets the last peak and
\* clears in_cycle only: the last angle becomes the sample's angle, and the
\* trend and the peak history keep their entries and take the sample's.
C27_CeilingResetsCycleOnly ==
    [][TimeoutStep =>
          /\ get_gait_cycle_data' = <<<<>>, <<>>, <<>>>>
          /\ IsNone(last_peak_time') /\ IsNone(last_peak_angle')
          /\ ~in_cycle'
          /\ last_hip_angle' = Some(gen.h)
          /\ hip_angle_trend' =
                 LET trend == Append(hip_angle_trend, gen.h - Val(last_hip_angle))
                 IN  IF Len(trend) > TREND_MAXLEN THEN Tail(trend) ELSE trend
          /\ hip_angle_history' =
                 LET history == Append(hip_angle_history,
                                       [time |-> gen.t, angle |-> gen.h, ankle |-> None])
                 IN  IF Len(history) > HISTORY_MAXLEN THEN Tail(history) ELSE history]_vars

C27_Witness ==
    /\ ev.timeout
    /\ ~in_cycle
    /\ gait_cycle_time = <<>>
    /\ last_hip_angle = Some(hip_angle_history[Len(hip_angle_history)].angle)
    /\ Len(hip_angle_trend) = TREND_MAXLEN
    /\ Len(hip_angle_history) = HISTORY_MAXLEN

\* C28: when a step confirms a peak at time p and no prior peak is recorded,
\* nothing is recorded, the last peak becomes p, the cycle start becomes p
\* and the first sample of the accumulating cycle is the peak sample.
C28_FirstPeakAnchorsCycle ==
    (ev.peak /\ IsNone(ev.prior)) =>
        /\ ~ev.emitted
        /\ last_peak_time = ev.peak_time
        /\ cycle_start_time = ev.peak_time
        /\ gait_cycle_time # <<>>
        /\ gait_cycle_time[1] = Val(ev.peak_time)

\* C29: a step confirms a peak only if the trend entry before the step and
\* the delta of the step (the last two trend entries after it) have
\* strictly opposite signs and the peak history holds at least 3 samples;
\* the peak is the sample before the step's, the middle of the last three
\* history entries, and it is >= both its neighbours or <= both.
C29_PeakOnlyOnStrictReversal ==
    ev.peak =>
        LET n == Len(hip_angle_history)
            k == Len(hip_angle_trend)
        IN  /\ k >= 2
            /\ hip_angle_trend[k - 1] * hip_angle_trend[k] < 0
            /\ n >= 3
            /\ ev.peak_time = Some(hip_angle_history[n - 1].time)
            /\ hip_angle_history[n].angle = Val(last_hip_angle)
            /\ IsPeak(hip_angle_history[n - 2].angle, hip_angle_history[n - 1].angle,
                      hip_angle_history[n].angle)

C29_Witness ==
    /\ gen.mode = "walk"
    /\ ev.peak
    /\ Len(hip_angle_history) >= 3
    /\ Len(hip_angle_trend) >= 2

\* a step whose sample ends a plateau: the angle has risen, repeated its
\* value once and now falls, or has fallen, repeated and now rises
PlateauStep ==
    /\ FeedWalk
    /\ Len(hip_angle_history) >= 3
    /\ LET n == Len(hip_angle_history)
           before == hip_angle_history[n - 2].angle
           prev_angle == hip_angle_history[n - 1].angle
           mid_angle == hip_angle_history[n].angle
       IN  /\ prev_angle = mid_angle
           /\ \/ before < prev_angle /\ gen.h < mid_angle
              \/ before > prev_angle /\ gen.h > mid_angle

\* C30: a tie resolves in favour of a peak: the step that ends a plateau
\* confirms a peak at the plateau's last sample.
C30_PlateauDeclaresPeak ==
    [][PlateauStep =>
          /\ ev'.peak
          /\ ev'.peak_time = Some(Last(hip_angle_history).time)]_vars

\* C32: when connect_serial fails, the error reaches the caller and the
\* link is closed afterwards: is_connected() is false.
C32_FailedConnectLeavesLinkClosed ==
    [][(toggle_connection /\ ~is_connected /\ gui'.result = "error_connect")
          => ~is_connected']_vars

\* C31: an exception in the body of the producer's loop does not end the
\* producer thread: after it the thread is alive and goes on with its loop.
C31_FailureKeepsProducerAlive ==
    [][(CollectFail => is_alive(collect'.thread))
       /\ (CliCollectFail => is_alive(cli'.collect_thread))]_vars

\* the three cycle lists hold what load_gait_cycle has read from
\* GAIT_CYCLE_FILE, written by _save_gait_cycle from the emitted record
LoadedEmittedRecord == <<"cycle", "data">> \in io.loaded /\ ~IsNone(io.record)

LoadedSavedHistory == <<"realtime", "saved">> \in io.loaded /\ ~IsNone(io.saved_bufs)

\* C34: after the rolling history has been saved and loaded back, every
\* channel buffer has the length and, slot by slot, the value it had when
\* it was saved (a missing slot is missing again); the time buffer is the
\* same up to its time base
C34_RealtimeFileRoundTrip ==
    LoadedSavedHistory =>
        LET saved == Val(io.saved_bufs)
        IN  /\ \A b \in 2..Len(bufs) : bufs[b] = saved[b]
            /\ Len(time_data) = Len(saved[1])
            /\ \A i \in 1..Len(time_data) :
                   Val(time_data[i]) - Val(time_data[1]) =
                       Val(saved[1][i]) - Val(saved[1][1])

\* the integer n of scale j and the integer m of scale k stand for the same
\* time: n / 1000^j = m / 1000^k
RECURSIVE SameTime(_, _, _, _)
SameTime(n, j, m, k) ==
    IF j = k THEN n = m
    ELSE IF j < k THEN m % 1000 = 0 /\ SameTime(n, j, m \div 1000, k - 1)
    ELSE n % 1000 = 0 /\ SameTime(n \div 1000, j - 1, m, k)

\* the cycle lists hold what was read from the cycle file that
\* save_gait_cycle_as wrote from loaded cycle lists
ReloadedSavedCycle == <<"cycle", "saved">> \in io.loaded /\ ~IsNone(io.resaved)

\* C40: after a cycle file has been loaded, saved with save_gait_cycle_as and
\* the saved file loaded, the time, hip-angle and ankle-angle series are
\* those of the first load
C40_LoadSaveLoadKeepsCycle ==
    ReloadedSavedCycle =>
        LET first == Val(io.resaved)
        IN  /\ gait_cycle_hip = first.hip_angle
            /\ gait_cycle_ankle = first.ankle_angle
            /\ Len(gait_cycle_time) = Len(first.time)
            /\ \A i \in 1..Len(first.time) :
                   SameTime(gait_cycle_time[i], io.cycle_scale,
                            first.time[i], first.scale)

\* C35: every record the detector emits spans, from its first sample to its
\* last, between 800 ms and 3000 ms inclusive, and has at least 20 samples
C35_EmittedRecordWithinLimits ==
    ev.emitted =>
        LET duration == ev.saved_time[Len(ev.saved_time)] - ev.saved_time[1]
        IN  /\ duration >= min_cycle_duration
            /\ duration <= max_cycle_duration
            /\ Len(ev.saved_time) >= MIN_CYCLE_POINTS

\* C35 witness: a record that spans the whole 3000 ms has been emitted
C35_Witness ==
    /\ ev.emitted
    /\ ev.saved_time[Len(ev.saved_time)] - ev.saved_time[1] = max_cycle_duration
    /\ Len(ev.saved_time) >= MIN_CYCLE_POINTS

\* a thread that is running its loop: started, and neither ended nor past
\* the last test of its loop condition
Consuming(th) == is_alive(th) /\ th # "return"

\* C36: whenever the flag of a mode is true, the consumer thread of that
\* mode is alive and inside its loop
C36_ActiveModeHasConsumer ==
    /\ gait_module_enabled => Consuming(gait_process_thread)
    /\ hip_module_enabled => Consuming(hip_process_thread)

\* the step takes the head of the handoff queue, and nothing else, into the
\* local variable of a consumer; a record whose 't' or 'h' is null is
\* dropped by the consumer instead
HeadGoesTo(local) ==
    /\ data_queue' = Tail(data_queue)
    /\ \/ local = Some(Head(data_queue))
       \/ IsNone(DictGet(Head(data_queue), "t", None))
       \/ IsNone(DictGet(Head(data_queue), "h", None))

\* C37: while a mode stays active, a sample leaves the handoff queue only
\* from its head, one at a time, into the hands of that mode's consumer:
\* the consumer processes every queued sample once, in the order of the
\* queue
C37_ActiveConsumerTakesEverySampleInOrder ==
    [][/\ (gait_module_enabled /\ gait_module_enabled'
              /\ Len(data_queue') < Len(data_queue))
          => (GaitGet /\ HeadGoesTo(gait_local'))
       /\ (hip_module_enabled /\ hip_module_enabled'
              /\ Len(data_queue') < Len(data_queue))
          => (HipGet /\ HeadGoesTo(hip_local'))]_vars

\* C38: while no mode is active, every sample on the handoff queue stays
\* there, in its place, whatever the step (a stop, a clear, a disconnect):
\* the queue only grows at its tail
C38_IdleQueueKeepsSamples ==
    [][(/\ ~gait_module_enabled /\ ~hip_module_enabled
        /\ ~gait_module_enabled' /\ ~hip_module_enabled')
          => /\ Len(data_queue') >= Len(data_queue)
             /\ SubSeq(data_queue', 1, Len(data_queue)) = data_queue]_vars

\* get_realtime_data has returned five lists that are not empty
SnapshotReturned == ~IsNone(obs) /\ "done" \in DOMAIN Val(obs)
                        /\ Val(obs).done /\ Val(obs).min_len > 0

\* C39: the five lists one call of get_realtime_data returns have the same
\* length, and at every index the five values are those of one sample
\* (sample n carries the time 10 * n and the value n in every channel)
C39_SnapshotIsOneSamplePerIndex ==
    SnapshotReturned =>
        LET snap == Val(obs)
            n == Len(snap.relative_time)
        IN  /\ Len(snap.hip_data) = n
            /\ Len(snap.hip_filtered) = n
            /\ Len(snap.ankle_deg) = n
            /\ Len(snap.act_data) = n
            /\ \A i \in 1..n :
                   /\ snap.relative_time[i] + snap.latest_time
                          = 10 * Val(snap.hip_data[i])
                   /\ snap.hip_filtered[i] = snap.hip_data[i]
                   /\ snap.ankle_deg[i] = snap.hip_data[i]
                   /\ snap.act_data[i] = snap.hip_data[i]

====
